---- MODULE Spec2Model ----
(***************************************************************************)
(* A model of the acquisition-and-extraction pipeline of the repository:   *)
(*   - the download pass        (TK-scraper-main/1a handelingen scraper.py) *)
(*   - the metadata pass        (TK-scraper-main/2 scrape_meta.py)          *)
(*   - the metadata retry script (TK-scraper-main/2b retry_failed_...py)    *)
(*   - the speech pass          (TK-scraper-main/3 process.py)              *)
(*   - the listing fetcher      (TK-scraper-main/1 officiele_...site.py)    *)
(*   - the JSON extractor       (TK-analyser-main/fireworks_processor.py)   *)
(* Text (file contents, ids, model output) is a sequence of one-character  *)
(* strings, so that formatting and splitting are computed, not assumed.    *)
(***************************************************************************)
EXTENDS Integers, Sequences, FiniteSets, TLC

VARIABLES
    program,           \* the scripts that are run in this behaviour
    \* ---- files on disk, shared by the programs
    links,             \* data/links/<year>.csv: NoRows or the list of ids (rows after the header)
    folder,            \* data/handelingen/<year>/: the set of downloaded file names
    RESUME_FILE,       \* last_processed.txt: NoFile or its text
    ERROR_LOG,         \* error_log.txt of the download pass: its lines
    incomplete,        \* per year, the files of the folder that do not hold the whole response
    \* ---- the download pass (1a), one run
    dpc,               \* position of the script
    last_year,         \* line 59
    last_file,         \* line 59
    resume_processing, \* line 60
    dgi,               \* index into vergaderjaren of the for loop of line 62
    file_list,         \* line 75
    dri,               \* index of the row read by the loop of line 81
    visited,           \* history: groups whose row loop was entered in this run
    attempted,         \* history: <<group, id>> for which a request was issued in this run
    start_ckpt,        \* history: what get_last_processed returned when the run started
    written,           \* history: the <<group index, row index>> of each save_last_processed of this run
    \* ---- files of the metadata pass
    metafile,          \* data/meta/meta_<year>.csv on disk: NoRows or its lines (each line its "file" column)
    META_RESUME_FILE,  \* last_processed_meta.txt: NoFile or its text
    \* ---- the metadata pass (2), one run
    mpc,               \* position of the script
    mgi,               \* index into vergaderjaren of the for loop of main
    mbuf,              \* lines written to the open metafile and not yet on disk
    todo,              \* sorted(todo) of line 105
    mi,                \* index into sorted(todo)
    m_last_file,       \* line 96
    m_resume,          \* resume_processing of line 97
    m_visited,         \* history: groups whose item loop was entered in this run
    m_attempted,       \* history: <<group, id>> requested in this run
    m_start_ckpt,      \* history: get_last_processed() when the run started
    m_written,         \* history: the <<group index, id>> of each save_last_processed of this run
    m_storage_error,   \* history: a write to the store or to the checkpoint raised in this run
    \* ---- the retry script (2b)
    rpc,               \* position of the script
    rfi,               \* index into FAILED_FILES
    retry_runs,        \* number of runs of the retry script so far
    \* ---- the JSON extractor (fireworks_processor.py), one call of _parse_api_response
    completion,        \* result['choices'][0]['text'], or NoChoices
    epc,               \* position in _parse_api_response / _extract_json
    clean_text,        \* line 110
    start_idx,         \* line 135
    e_i,               \* i of the loop of line 146
    brace_count,       \* line 141
    in_string,         \* line 142
    escape_next,       \* line 143
    analysis_result,   \* what _parse_api_response returns
    alarm,             \* the SIGALRM timer of _timeout: "off", "armed", or "fired" in this call
    e_results,         \* history: result of each earlier call on this response, and whether its alarm fired
    \* ---- the listing fetcher (1), one call of get_and_retry
    gpc,               \* position in get_and_retry
    max_retries,       \* its parameter
    g_i,               \* i of the for loop of line 11
    g_trace,           \* history: the sleeps, the requests with their outcomes, the end of the call
    \* ---- the speech pass (3 process.py)
    parsed,            \* data/parsed/speeches_<year>.csv: whether it exists, and its lines
    spc,               \* position of the script
    sgi,               \* index into VERGADERJAREN of the for loop of main
    s_files,           \* the files of line 178 not yet processed
    speeches,          \* line 183: what process_document returned last
    s_runs,            \* history: number of runs started so far
    s_completed,       \* history: number of runs that reached the end of main
    s_first,           \* history: the stores as the first completed run left them
    \* ---- process_text (fireworks_processor.py), one call
    ppc,               \* position in process_text
    response,          \* what session.post gives: an exception, or a status and a body
    returned,          \* what process_text returns: the result and whether _meta was attached
    \* ---- the enumeration script (1 officiele_bekendmakingen_site.py), one run
    npc,               \* position of the script
    ngi,               \* index into vergaderjaren of the for loop of line 57
    n_page,            \* page of the loop of line 65
    n_max_page,        \* max_page of line 64
    n_file,            \* the rows written to the open link file of the year (without the header)
    n_failed           \* history: the years whose enumeration ended in the handler of line 70

diskVars == <<links, folder, RESUME_FILE, ERROR_LOG, incomplete>>
metaDiskVars == <<metafile, META_RESUME_FILE>>
metaVars == <<mpc, mgi, mbuf, todo, mi, m_last_file, m_resume,
              m_visited, m_attempted, m_start_ckpt, m_written, m_storage_error>>
retryVars == <<rpc, rfi, retry_runs>>
extractVars == <<completion, epc, clean_text, start_idx, e_i, brace_count, in_string,
                 escape_next, analysis_result, alarm, e_results>>
downloadVars == <<dpc, last_year, last_file, resume_processing, dgi, file_list, dri,
                  visited, attempted, start_ckpt, written>>
fetchVars == <<gpc, max_retries, g_i, g_trace>>
speechVars == <<parsed, spc, sgi, s_files, speeches, s_runs, s_completed, s_first>>
processVars == <<ppc, response, returned>>
enumVars == <<npc, ngi, n_page, n_max_page, n_file, n_failed>>
vars == <<program, diskVars, downloadVars, metaDiskVars, metaVars, retryVars, extractVars,
          fetchVars, speechVars, processVars, enumVars>>

----------------------------------------------------------------------------
(* Text helpers *)

\* Python's None; a value no text equals (texts hold one-character strings).
None == <<"None">>

\* A path at which no file exists.
NoFile == <<"NoFile">>

\* The same for a file read as a list of rows.
NoRows == <<NoFile>>

\* str.strip(): leading and trailing blanks removed.
RECURSIVE LStrip(_)
LStrip(s) ==
    IF s # <<>> /\ Head(s) = " " THEN LStrip(Tail(s)) ELSE s

RECURSIVE RStrip(_)
RStrip(s) ==
    IF s # <<>> /\ s[Len(s)] = " " THEN RStrip(SubSeq(s, 1, Len(s) - 1)) ELSE s

Strip(s) == RStrip(LStrip(s))

\* str.split(sep) for a one-character separator: the list of fields.
RECURSIVE Split(_, _)
Split(s, sep) ==
    IF \E i \in 1..Len(s) : s[i] = sep
    THEN LET i == CHOOSE k \in 1..Len(s) : s[k] = sep /\ \A j \in 1..(k - 1) : s[j] # sep
         IN  <<SubSeq(s, 1, i - 1)>> \o Split(SubSeq(s, i + 1, Len(s)), sep)
    ELSE <<s>>

\* "sub in s" for strings.
Contains(s, sub) ==
    \E i \in 1..(Len(s) - Len(sub) + 1) : SubSeq(s, i, i + Len(sub) - 1) = sub

\* The characters of the ids and keys of the model, in code-point order.
CharOrder == <<",", "-", "1", "2", "3", "a", "b", "c", "d", "e", "k">>

Rank(c) == CHOOSE i \in 1..Len(CharOrder) : CharOrder[i] = c

\* Python's s <= t on strings: lexicographic by code point.
RECURSIVE StrLeq(_, _)
StrLeq(s, t) ==
    IF s = <<>> THEN TRUE
    ELSE IF t = <<>> THEN FALSE
    ELSE IF Head(s) = Head(t) THEN StrLeq(Tail(s), Tail(t))
    ELSE Rank(Head(s)) < Rank(Head(t))

----------------------------------------------------------------------------
(* Configuration and the remote archive *)

\* The parliamentary years, in the configured order ("2023-2024", "2022-2023",
\* "2021-2022", written with two characters each).
vergaderjaren == << <<"2", "3">>, <<"2", "2">>, <<"2", "1">> >>

Groups == 1..Len(vergaderjaren)

\* The ids the archive lists for each year, in listing order (newest first);
\* one id per listing page.  The second year holds an id of the other chamber
\* ("-ek-"), the third an id with a comma in it.
Remote ==
    << << <<"a">> >>,
       << <<"c">>, <<"-", "e", "k", "-">>, <<"b">> >>,
       << <<"d", ",", "e">> >> >>

\* A link file after the enumeration script wrote the first k pages.
Prefix(g, k) == SubSeq(Remote[g], 1, k)

\* "-ek-" in row[1]
Excluded(id) == Contains(id, <<"-", "e", "k", "-">>)

----------------------------------------------------------------------------
(* The checkpoint file, 1a lines 42-56 (and 2 scrape_meta.py lines 60-76) *)

\* f.write(f"{vergaderjaar},{filename}") on a file opened with "w".
save_last_processed(vergaderjaar, filename) == vergaderjaar \o <<",">> \o filename

\* The value get_last_processed returns: a pair of None, or the list of the
\* fields of the stripped text ("unreadable" stands for an open() that raises).
get_last_processed(file) ==
    IF file = NoFile THEN <<None, None>>
    ELSE IF file = <<"unreadable">> THEN <<None, None>>
    ELSE IF Strip(file) # <<>> THEN Split(Strip(file), ",")
    ELSE <<None, None>>

\* "last_year, last_file = ..." raises ValueError unless there are two values.
UnpackFails(fields) == Len(fields) # 2

----------------------------------------------------------------------------
(* The enumeration script rewriting one link file, 1 lines 57-71: the file   *)
(* is opened with "w" and gets the rows of the pages fetched before the     *)
(* first failure (all of them when none fails).  It runs between the runs   *)
(* of the other programs.                                                   *)

\* No program is running.
Idle == dpc = "idle" /\ mpc = "idle" /\ rpc = "idle"

\* What the download pass and the enumeration script leave alone.
NotDownload ==
    UNCHANGED <<program, metaDiskVars, metaVars, retryVars, extractVars, fetchVars, speechVars,
                processVars, enumVars>>

Enumerate(g, k) ==
    /\ program = "download"
    /\ Idle
    /\ NotDownload
    /\ links[g] # Prefix(g, k)
    /\ links' = [links EXCEPT ![g] = Prefix(g, k)]
    /\ UNCHANGED <<folder, RESUME_FILE, ERROR_LOG, incomplete, downloadVars>>

----------------------------------------------------------------------------
(* The download pass, 1a lines 58-115 *)

\* A resume flag that is never set.
NotResuming(year) == FALSE

\* line 60: resume_processing = False if last_year is None else True
Resuming(year) == year # None

\* lines 59-60; an uncaught ValueError ends the script.
DStart ==
    /\ program = "download"
    /\ Idle
    /\ NotDownload
    /\ LET got == get_last_processed(RESUME_FILE) IN
         /\ start_ckpt' = got
         /\ IF UnpackFails(got)
            THEN /\ dpc' = "aborted"
                 /\ UNCHANGED <<last_year, last_file, resume_processing>>
            ELSE /\ dpc' = "groups"
                 /\ last_year' = got[1]
                 /\ last_file' = got[2]
                 /\ resume_processing' = Resuming(got[1])
    /\ dgi' = 1
    /\ dri' = 1
    /\ file_list' = {}
    /\ visited' = {}
    /\ attempted' = {}
    /\ written' = <<>>
    /\ UNCHANGED diskVars

\* The guard of line 64.
SkipYear(resume, vergaderjaar, year) == resume /\ vergaderjaar # year

\* lines 62-79: the head of the loop over the years.
DGroup ==
    /\ dpc = "groups"
    /\ NotDownload
    /\ dgi \in Groups
    /\ IF SkipYear(resume_processing, vergaderjaren[dgi], last_year)
       THEN /\ dgi' = dgi + 1
            /\ UNCHANGED <<dpc, file_list, dri, visited>>
       ELSE IF links[dgi] = NoRows
       THEN /\ dgi' = dgi + 1
            /\ UNCHANGED <<dpc, file_list, dri, visited>>
       ELSE /\ file_list' = folder[dgi]
            /\ dri' = 1
            /\ dpc' = "rows"
            /\ visited' = visited \cup {dgi}
            /\ UNCHANGED dgi
    /\ UNCHANGED <<diskVars, last_year, last_file, resume_processing, attempted,
                   start_ckpt, written>>

\* The script ends after the last year.
DEnd ==
    /\ dpc = "groups"
    /\ NotDownload
    /\ dgi \notin Groups
    /\ dpc' = "done"
    /\ UNCHANGED <<diskVars, last_year, last_file, resume_processing, dgi, file_list,
                   dri, visited, attempted, start_ckpt, written>>

\* A test that no row passes: the skipping never ends.
SkipAlways(row, file) == TRUE

\* lines 83-87: a row other than last_file leaves the flag set.
StillSkipping(row, file) == row # file

\* A test that looks at the folder only.
SkipDownloaded(row, files) == row \in files

\* line 89
SkipRow(row, files) == row \in files \/ Excluded(row)

\* lines 81-94: one row of the link file, up to the request.
DRow ==
    /\ dpc = "rows"
    /\ NotDownload
    /\ IF dri > Len(links[dgi])
       THEN /\ dpc' = "groups"
            /\ dgi' = dgi + 1
            /\ UNCHANGED <<dri, resume_processing>>
       ELSE LET row == links[dgi][dri] IN
            IF resume_processing
            THEN /\ resume_processing' = StillSkipping(row, last_file)
                 /\ dri' = dri + 1
                 /\ UNCHANGED <<dpc, dgi>>
            ELSE IF SkipRow(row, file_list)
            THEN /\ dri' = dri + 1
                 /\ UNCHANGED <<dpc, dgi, resume_processing>>
            ELSE /\ dpc' = "fetch"
                 /\ UNCHANGED <<dri, dgi, resume_processing>>
    /\ UNCHANGED <<diskVars, last_year, last_file, file_list, visited, attempted,
                   start_ckpt, written>>

\* A loop without a handler: the exception of the request ends the script.
Propagated(pc) == "aborted"

\* lines 105-107 (143-145 in the metadata pass): the exception is logged and
\* continue takes the loop to its next turn.
LoggedAndSkipped(pc) == pc

\* line 92: the url of an item; "h" is the scheme, "z" stands for the host
\* name with its slash.
Url(id) == <<"h", ":", "/", "/", "z">> \o id

\* The text of a request's exception, which names the url.
ErrorText(url) == <<"4", "0", "4", ":", " ">> \o url

\* log_error, lines 31-34: the line appended to error_log.txt; "E" stands
\* for the words "Error retrieving " (the newline is the end of the entry).
log_error(url, error) == <<"E">> \o url \o <<":", " ">> \o error

\* read_error_log of 1b validate_downloads.py, lines 22-36: of each line with
\* the words, the text behind them up to the first colon is taken for the
\* url, and what follows the host name in it for the id.
read_error_log(log) ==
    UNION { IF Contains(log[n], <<"E">>)
            THEN LET url == Split(Split(log[n], "E")[2], ":")[1]
                 IN  IF Contains(url, <<"z">>) THEN {Split(url, "z")[2]} ELSE {}
            ELSE {} : n \in 1..Len(log) }

\* What lines 96-107 come to: the first request gives the response; the
\* first request fails and the second try (the html page, then the xml
\* again) gives it; or the second try fails too.
FetchOutcomes == {"ok", "retried", "failed"}

\* The lines the handlers of lines 98-99 and 105-106 append.
Logged(url, outcome) ==
    CASE outcome = "ok" -> <<>>
      [] outcome = "retried" -> <<log_error(url, ErrorText(url))>>
      [] OTHER -> <<log_error(url, ErrorText(url)), log_error(url, ErrorText(url))>>

\* The length of the error log from which on no request fails any more.
MaxLogLines == 1

\* lines 96-107: get_file, and on failure the html request followed by a
\* second xml request.
DFetch(outcome) ==
    /\ dpc = "fetch"
    /\ NotDownload
    /\ outcome = "ok" \/ Len(ERROR_LOG) < MaxLogLines
    /\ attempted' = attempted \cup {<<dgi, links[dgi][dri]>>}
    /\ ERROR_LOG' = ERROR_LOG \o Logged(Url(links[dgi][dri]), outcome)
    /\ IF outcome # "failed"
       THEN /\ dpc' = "write"
            /\ UNCHANGED dri
       ELSE /\ dpc' = LoggedAndSkipped("rows")
            /\ dri' = dri + 1
    /\ UNCHANGED <<links, folder, RESUME_FILE, incomplete, last_year, last_file,
                   resume_processing, dgi, file_list, visited, start_ckpt, written>>

\* What writing a file can come to: it is written; open raises OSError and
\* the file is as before; or open has created or truncated the file and the
\* write raises.
WriteOutcomes == {"ok", "no_file", "partial"}

\* A folder that does not get the file.
NotStored(files, name) == files

\* line 110: open(xml_filename, "wb") creates the file.
Stored(files, name) == files \cup {name}

\* lines 110-111: open("wb") empties the file and f.write fills it; a write
\* that raises leaves the file without the whole response.
AfterWrite(files, name, how) ==
    CASE how = "ok" -> files \ {name}
      [] how = "partial" -> files \cup {name}
      [] OTHER -> files

\* lines 109-112: the response is written to the year's folder.  An OSError
\* is caught nowhere: it ends the script.
DWrite(how) ==
    /\ dpc = "write"
    /\ NotDownload
    /\ folder' = IF how = "no_file" THEN folder
                 ELSE [folder EXCEPT ![dgi] = Stored(@, links[dgi][dri])]
    /\ incomplete' = [incomplete EXCEPT ![dgi] = AfterWrite(@, links[dgi][dri], how)]
    /\ dpc' = IF how = "ok" THEN "save" ELSE "oserror"
    /\ UNCHANGED <<links, RESUME_FILE, ERROR_LOG, last_year, last_file, resume_processing,
                   dgi, file_list, dri, visited, attempted, start_ckpt, written>>

\* The checkpoint file after save_last_processed, lines 42-44 (60-63 in the
\* metadata pass), by what the writing came to.
Saved(file, how, vergaderjaar, filename) ==
    CASE how = "ok" -> save_last_processed(vergaderjaar, filename)
      [] how = "no_file" -> file
      [] OTHER -> <<>>

\* line 115; an OSError ends the script.
DSave(how) ==
    /\ dpc = "save"
    /\ NotDownload
    /\ RESUME_FILE' = Saved(RESUME_FILE, how, vergaderjaren[dgi], links[dgi][dri])
    /\ IF how = "ok"
       THEN /\ written' = Append(written, <<dgi, dri>>)
            /\ dri' = dri + 1
            /\ dpc' = "rows"
       ELSE /\ dpc' = "oserror"
            /\ UNCHANGED <<written, dri>>
    /\ UNCHANGED <<links, folder, ERROR_LOG, incomplete, last_year, last_file, resume_processing, dgi,
                   file_list, visited, attempted, start_ckpt>>

\* The process is killed, or has ended: the files stay, the process is gone.
DStop ==
    /\ dpc # "idle"
    /\ NotDownload
    /\ dpc' = "idle"
    /\ last_year' = None
    /\ last_file' = None
    /\ resume_processing' = FALSE
    /\ dgi' = 1
    /\ dri' = 1
    /\ file_list' = {}
    /\ visited' = {}
    /\ attempted' = {}
    /\ start_ckpt' = <<None, None>>
    /\ written' = <<>>
    /\ UNCHANGED diskVars

----------------------------------------------------------------------------
(* The metadata pass, 2 scrape_meta.py lines 78-157 *)

\* The header row, line 103, by its first column.
Header == <<"f", "i", "l", "e">>

\* sorted(S) for a set of strings.
RECURSIVE Sorted(_)
Sorted(S) ==
    IF S = {} THEN <<>>
    ELSE LET m == CHOOSE x \in S : \A y \in S : StrLeq(x, y)
         IN  <<m>> \o Sorted(S \ {m})

\* csv.DictReader takes the first line as the field names; row["file"] raises
\* KeyError when that line is not the header.
ReadFails(lines) == lines # NoRows /\ Len(lines) >= 2 /\ lines[1] # Header

\* lines 83-88: the "file" column of the rows on disk.
Names(lines) ==
    IF lines = NoRows THEN {}
    ELSE {lines[i] : i \in 2..Len(lines)}

\* A to-do list that ignores the rows the store has.
TodoAll(files, done) == Sorted(files)

\* lines 91-92 and 105: the downloaded files without a row, sorted.
Todo(files, done) == Sorted(files \ done)

\* line 97
ResumeHere(year, vergaderjaar) ==
    IF year = None THEN FALSE ELSE year = vergaderjaar

\* line 107
SkipName(resume, name, file) == resume /\ file # <<>> /\ StrLeq(name, file)

\* A store that is always opened with "w".
Truncated(lines, done) == <<>>

\* The file as open(mode) leaves it: "a" keeps it, "w" creates or truncates it.
Opened(lines, done) == IF done # {} THEN lines ELSE <<>>

\* What the metadata pass leaves alone.
NotMeta ==
    UNCHANGED <<program, diskVars, downloadVars, retryVars, extractVars, fetchVars, speechVars,
                processVars, enumVars>>

\* main, line 151: the run starts.
MStart ==
    /\ program = "metadata"
    /\ Idle
    /\ NotMeta
    /\ mpc' = "groups"
    /\ mgi' = 1
    /\ mi' = 1
    /\ todo' = <<>>
    /\ mbuf' = <<>>
    /\ m_last_file' = None
    /\ m_resume' = FALSE
    /\ m_visited' = {}
    /\ m_attempted' = {}
    /\ m_start_ckpt' = get_last_processed(META_RESUME_FILE)
    /\ m_written' = <<>>
    /\ m_storage_error' = FALSE
    /\ UNCHANGED metaDiskVars

\* process_metadata lines 80-103: the store is read, the resume point is read,
\* the store is opened and gets its header.  An exception (KeyError from the
\* reader, ValueError from the unpacking of line 96) is caught by main, line
\* 155, which goes on to the next year.
MGroup ==
    /\ mpc = "groups"
    /\ mgi \in Groups
    /\ NotMeta
    /\ LET done == Names(metafile[mgi])
           got  == get_last_processed(META_RESUME_FILE)
       IN  IF ReadFails(metafile[mgi]) \/ UnpackFails(got)
           THEN /\ mgi' = mgi + 1
                /\ UNCHANGED <<mpc, mbuf, todo, mi, m_last_file, m_resume, m_visited,
                               metafile>>
           ELSE /\ todo' = Todo(folder[mgi], done)
                /\ m_last_file' = got[2]
                /\ m_resume' = ResumeHere(got[1], vergaderjaren[mgi])
                /\ metafile' = [metafile EXCEPT ![mgi] = Opened(@, done)]
                /\ mbuf' = IF done # {} THEN <<>> ELSE <<Header>>
                /\ mi' = 1
                /\ mpc' = "items"
                /\ m_visited' = m_visited \cup {mgi}
                /\ UNCHANGED mgi
    /\ UNCHANGED <<META_RESUME_FILE, m_attempted, m_start_ckpt, m_storage_error, m_written>>

\* lines 105-110: the next name of sorted(todo); after the last one the with
\* block of line 100 closes the store, which writes what is buffered.
MItem ==
    /\ mpc = "items"
    /\ NotMeta
    /\ IF mi > Len(todo)
       THEN /\ metafile' = [metafile EXCEPT ![mgi] = @ \o mbuf]
            /\ mbuf' = <<>>
            /\ mgi' = mgi + 1
            /\ mpc' = "groups"
            /\ UNCHANGED mi
       ELSE /\ IF SkipName(m_resume, todo[mi], m_last_file)
               THEN mi' = mi + 1 /\ UNCHANGED mpc
               ELSE mpc' = "fetch" /\ UNCHANGED mi
            /\ UNCHANGED <<metafile, mbuf, mgi>>
    /\ UNCHANGED <<META_RESUME_FILE, todo, m_last_file, m_resume, m_visited, m_attempted,
                   m_start_ckpt, m_storage_error, m_written>>

\* lines 112-132 and 143-145: the page is fetched and its fields extracted; an
\* exception is logged and the loop continues with the next name.
MFetch(ok) ==
    /\ mpc = "fetch"
    /\ NotMeta
    /\ m_attempted' = m_attempted \cup {<<mgi, todo[mi]>>}
    /\ IF ok
       THEN mpc' = "row" /\ UNCHANGED mi
       ELSE mpc' = LoggedAndSkipped("items") /\ mi' = mi + 1
    /\ UNCHANGED <<metaDiskVars, mgi, mbuf, todo, m_last_file, m_resume, m_visited,
                   m_start_ckpt, m_storage_error, m_written>>

\* lines 135-138: writer.writerow on the open store; the row is buffered.
\* When it raises, the handler of lines 143-145 logs and goes on.
MRow(ok) ==
    /\ mpc = "row"
    /\ NotMeta
    /\ IF ok
       THEN /\ mbuf' = Append(mbuf, todo[mi])
            /\ mpc' = "save"
            /\ UNCHANGED <<mi, m_storage_error>>
       ELSE /\ mpc' = "items"
            /\ mi' = mi + 1
            /\ m_storage_error' = TRUE
            /\ UNCHANGED mbuf
    /\ UNCHANGED <<metaDiskVars, mgi, todo, m_last_file, m_resume, m_visited,
                   m_attempted, m_start_ckpt, m_written>>

\* line 141; when it raises, the handler of lines 143-145 logs and goes on.
MSave(how) ==
    /\ mpc = "save"
    /\ NotMeta
    /\ META_RESUME_FILE' = Saved(META_RESUME_FILE, how, vergaderjaren[mgi], todo[mi])
    /\ IF how = "ok"
       THEN /\ m_written' = Append(m_written, <<mgi, todo[mi]>>)
            /\ UNCHANGED m_storage_error
       ELSE /\ m_storage_error' = TRUE
            /\ UNCHANGED m_written
    /\ mi' = mi + 1
    /\ mpc' = "items"
    /\ UNCHANGED <<metafile, mgi, mbuf, todo, m_last_file, m_resume, m_visited,
                   m_attempted, m_start_ckpt>>

\* The buffer of the open store fills up and is written out (it may at any
\* write, depending on the sizes of the rows).
MFlush ==
    /\ mpc \in {"items", "fetch", "row", "save"}
    /\ mbuf # <<>>
    /\ NotMeta
    /\ metafile' = [metafile EXCEPT ![mgi] = @ \o mbuf]
    /\ mbuf' = <<>>
    /\ UNCHANGED <<META_RESUME_FILE, mpc, mgi, todo, mi, m_last_file, m_resume,
                   m_visited, m_attempted, m_start_ckpt, m_storage_error, m_written>>

\* main returns after the last year.
MEnd ==
    /\ mpc = "groups"
    /\ mgi \notin Groups
    /\ NotMeta
    /\ mpc' = "done"
    /\ UNCHANGED <<metaDiskVars, mgi, mbuf, todo, mi, m_last_file, m_resume, m_visited,
                   m_attempted, m_start_ckpt, m_storage_error, m_written>>

\* The process is killed, or has ended: what was buffered is lost.
MStop ==
    /\ mpc # "idle"
    /\ NotMeta
    /\ mpc' = "idle"
    /\ mgi' = 1
    /\ mi' = 1
    /\ todo' = <<>>
    /\ mbuf' = <<>>
    /\ m_last_file' = None
    /\ m_resume' = FALSE
    /\ m_visited' = {}
    /\ m_attempted' = {}
    /\ m_start_ckpt' = <<None, None>>
    /\ m_written' = <<>>
    /\ m_storage_error' = FALSE
    /\ UNCHANGED metaDiskVars

----------------------------------------------------------------------------
(* The retry script, 2b retry_failed_meta_scrape.py lines 64-135 *)

\* line 25: the ids to retry, all of the second year (line 109).
FAILED_FILES == << <<"b">> >>

RetryYear == 2

\* The number of times the retry script is run.
MaxRetryRuns == 2

NotRetry ==
    UNCHANGED <<program, diskVars, downloadVars, metaVars, META_RESUME_FILE, extractVars, fetchVars, speechVars,
                processVars, enumVars>>

\* main lines 109-116: a missing store is created with its header.
RStart ==
    /\ program = "metadata"
    /\ Idle
    /\ retry_runs < MaxRetryRuns
    /\ NotRetry
    /\ retry_runs' = retry_runs + 1
    /\ rpc' = "files"
    /\ rfi' = 1
    /\ metafile' = [metafile EXCEPT
                      ![RetryYear] = IF @ = NoRows THEN <<Header>> ELSE @]

\* process_single_file, lines 64-105: on success the row is appended to the
\* store, which is opened and closed around the write.
RFile(ok) ==
    /\ rpc = "files"
    /\ rfi <= Len(FAILED_FILES)
    /\ NotRetry
    /\ metafile' = IF ok
                   THEN [metafile EXCEPT ![RetryYear] = Append(@, FAILED_FILES[rfi])]
                   ELSE metafile
    /\ rfi' = rfi + 1
    /\ UNCHANGED <<rpc, retry_runs>>

\* The script has ended, or is killed.
RStop ==
    /\ rpc # "idle"
    /\ NotRetry
    /\ rpc' = "idle"
    /\ rfi' = 1
    /\ UNCHANGED <<metafile, retry_runs>>

----------------------------------------------------------------------------
(* json.loads, as far as the texts of the model exercise it: objects,      *)
(* arrays, strings with the one-character escapes, unsigned integers and    *)
(* the three literals; blanks between tokens.  A parsed value is kept as    *)
(* its kind and the text it was parsed from.                                *)

\* The character at position i, "" beyond the end of the text.
At(s, i) == IF i \in 1..Len(s) THEN s[i] ELSE ""

Digits == {"0", "1", "2", "3", "4", "5", "6", "7", "8", "9"}

\* The characters that may follow a backslash in a string.
Escapes == {"\"", "\\", "/", "b", "f", "n", "r", "t"}

RECURSIVE SkipWs(_, _)
SkipWs(s, i) == IF At(s, i) = " " THEN SkipWs(s, i + 1) ELSE i

RECURSIVE DigitsEnd(_, _)
DigitsEnd(s, i) == IF At(s, i) \in Digits THEN DigitsEnd(s, i + 1) ELSE i

\* The position after the string whose opening quote is before position j;
\* 0 when it is not terminated or holds an invalid escape.
RECURSIVE StringEnd(_, _)
StringEnd(s, j) ==
    IF j > Len(s) THEN 0
    ELSE IF s[j] = "\"" THEN j + 1
    ELSE IF s[j] = "\\"
         THEN IF At(s, j + 1) \in Escapes THEN StringEnd(s, j + 2) ELSE 0
    ELSE StringEnd(s, j + 1)

\* Does the text continue at position i with the word w?
StartsWith(s, i, w) == i + Len(w) - 1 <= Len(s) /\ SubSeq(s, i, i + Len(w) - 1) = w

RECURSIVE ValueEnd(_, _)
RECURSIVE MembersEnd(_, _)
RECURSIVE ElementsEnd(_, _)

\* The position after the JSON value that starts at position i; 0 when no
\* value starts there.
ValueEnd(s, i) ==
    LET c == At(s, i) IN
    IF c = "{"
    THEN LET j == SkipWs(s, i + 1)
         IN  IF At(s, j) = "}" THEN j + 1 ELSE MembersEnd(s, j)
    ELSE IF c = "["
    THEN LET j == SkipWs(s, i + 1)
         IN  IF At(s, j) = "]" THEN j + 1 ELSE ElementsEnd(s, j)
    ELSE IF c = "\"" THEN StringEnd(s, i + 1)
    ELSE IF c = "0" THEN i + 1
    ELSE IF c \in Digits THEN DigitsEnd(s, i + 1)
    ELSE IF StartsWith(s, i, <<"t", "r", "u", "e">>) THEN i + 4
    ELSE IF StartsWith(s, i, <<"f", "a", "l", "s", "e">>) THEN i + 5
    ELSE IF StartsWith(s, i, <<"n", "u", "l", "l">>) THEN i + 4
    ELSE 0

\* The members of an object from the key at position j to the closing brace.
MembersEnd(s, j) ==
    IF At(s, j) # "\"" THEN 0
    ELSE LET e == StringEnd(s, j + 1) IN
         IF e = 0 THEN 0
         ELSE LET k == SkipWs(s, e) IN
              IF At(s, k) # ":" THEN 0
              ELSE LET v == ValueEnd(s, SkipWs(s, k + 1)) IN
                   IF v = 0 THEN 0
                   ELSE LET m == SkipWs(s, v) IN
                        IF At(s, m) = "," THEN MembersEnd(s, SkipWs(s, m + 1))
                        ELSE IF At(s, m) = "}" THEN m + 1
                        ELSE 0

\* The elements of an array from position j to the closing bracket.
ElementsEnd(s, j) ==
    LET v == ValueEnd(s, j) IN
    IF v = 0 THEN 0
    ELSE LET m == SkipWs(s, v) IN
         IF At(s, m) = "," THEN ElementsEnd(s, SkipWs(s, m + 1))
         ELSE IF At(s, m) = "]" THEN m + 1
         ELSE 0

\* The Python type of the value that starts with character c.
Kind(c) ==
    IF c = "{" THEN "dict"
    ELSE IF c = "[" THEN "list"
    ELSE IF c = "\"" THEN "str"
    ELSE IF c \in Digits THEN "int"
    ELSE IF c = "n" THEN "NoneType"
    ELSE "bool"

\* json.loads raised json.JSONDecodeError.
JSONDecodeError == [tag |-> "JSONDecodeError", kind |-> "", src |-> <<>>]

\* json.loads(s): the whole text must be one value between blanks.
json_loads(s) ==
    LET i == SkipWs(s, 1)
        e == ValueEnd(s, i)
    IN  IF e # 0 /\ SkipWs(s, e) = Len(s) + 1
        THEN [tag |-> "value", kind |-> Kind(s[i]), src |-> SubSeq(s, i, e - 1)]
        ELSE JSONDecodeError

----------------------------------------------------------------------------
(* The JSON extractor, fireworks_processor.py lines 97-206 *)

\* _get_error_response(), lines 193-206: the fixed "no finding" object.
ErrorResponse == [tag |-> "error_response", kind |-> "dict", src |-> <<>>]

\* A response of the API without choices, line 99.
NoChoices == <<"NoChoices">>

\* No value yet.
Unset == [tag |-> "unset", kind |-> "", src |-> <<>>]

\* str.replace(pat, ''): every occurrence removed, left to right.
RECURSIVE Remove(_, _)
Remove(s, pat) ==
    IF s = <<>> THEN <<>>
    ELSE IF StartsWith(s, 1, pat) THEN Remove(SubSeq(s, Len(pat) + 1, Len(s)), pat)
    ELSE <<Head(s)>> \o Remove(Tail(s), pat)

\* The backquote of a code fence (written ' here: the strings of the module
\* cannot hold a backquote, and no text of the model holds an apostrophe).
Tick == "'"

\* lines 103 and 110-111
CleanText(text) ==
    Strip(Remove(Remove(Strip(text), <<Tick, Tick, Tick, "j", "s", "o", "n">>),
                 <<Tick, Tick, Tick>>))

\* text.find('{'), line 135: 0 stands for -1.
FindBrace(s) ==
    IF \E i \in 1..Len(s) : s[i] = "{"
    THEN CHOOSE i \in 1..Len(s) : s[i] = "{" /\ \A j \in 1..(i - 1) : s[j] # "{"
    ELSE 0

\* ''.join(result), line 168: result holds every character read since
\* start_idx, it is never emptied.
JsonStr(text, start, i) == SubSeq(text, start, i)

NotExtract ==
    UNCHANGED <<program, diskVars, downloadVars, metaDiskVars, metaVars, retryVars, fetchVars, speechVars,
                processVars, enumVars>>

\* A scan that goes on from where the scan of the last call stopped.
KeptPosition(start, i) == IF i > start THEN i ELSE start

\* line 146: the loop starts at start_idx, whatever was scanned before.
FirstPosition(start, i) == start

\* _parse_api_response lines 99-108: a response without choices is answered at
\* once; otherwise the handler is installed and the alarm set (lines 186-187).
EEnter ==
    /\ epc = "start"
    /\ NotExtract
    /\ UNCHANGED <<completion, clean_text, start_idx, e_i, brace_count, in_string,
                   escape_next, e_results>>
    /\ IF completion = NoChoices
       THEN /\ analysis_result' = ErrorResponse
            /\ epc' = "done"
            /\ UNCHANGED alarm
       ELSE /\ epc' = "parse"
            /\ alarm' = "armed"
            /\ UNCHANGED analysis_result

\* _parse_api_response lines 110-121 and _extract_json lines 135-144: the
\* direct parse, and when it fails the search for the first brace.
EParse ==
    /\ epc = "parse"
    /\ NotExtract
    /\ UNCHANGED <<completion, e_results>>
    /\ LET text == CleanText(completion)
           parsed_json == json_loads(text)
       IN  /\ clean_text' = text
           /\ IF parsed_json # JSONDecodeError
              THEN /\ epc' = "log"
                   /\ UNCHANGED <<start_idx, e_i, brace_count, in_string, escape_next,
                                  analysis_result, alarm>>
              ELSE IF FindBrace(text) = 0
              THEN /\ analysis_result' = ErrorResponse
                   /\ epc' = "done"
                   /\ alarm' = "off"
                   /\ UNCHANGED <<start_idx, e_i, brace_count, in_string, escape_next>>
              ELSE /\ start_idx' = FindBrace(text)
                   /\ e_i' = FirstPosition(FindBrace(text), e_i)
                   /\ brace_count' = 0
                   /\ in_string' = FALSE
                   /\ escape_next' = FALSE
                   /\ epc' = "scan"
                   /\ UNCHANGED <<analysis_result, alarm>>

\* lines 116-117 and 191: the parsed value has been logged and is returned;
\* leaving the with block cancels the alarm.
EReturnParsed ==
    /\ epc = "log"
    /\ NotExtract
    /\ analysis_result' = json_loads(clean_text)
    /\ epc' = "done"
    /\ alarm' = IF alarm = "armed" THEN "off" ELSE alarm
    /\ UNCHANGED <<completion, clean_text, start_idx, e_i, brace_count, in_string,
                   escape_next, e_results>>

\* One iteration of the loop of lines 146-174.  A span that does not parse is
\* reported with logger.error (line 172) before the loop goes on.
EScan ==
    /\ epc = "scan"
    /\ e_i <= Len(clean_text)
    /\ NotExtract
    /\ UNCHANGED <<completion, clean_text, start_idx, e_results>>
    /\ LET char == clean_text[e_i] IN
       IF escape_next
       THEN /\ escape_next' = FALSE
            /\ e_i' = e_i + 1
            /\ UNCHANGED <<brace_count, in_string, epc, analysis_result, alarm>>
       ELSE IF char = "\\"
       THEN /\ escape_next' = TRUE
            /\ e_i' = e_i + 1
            /\ UNCHANGED <<brace_count, in_string, epc, analysis_result, alarm>>
       ELSE IF char = "\""
       THEN /\ in_string' = ~in_string
            /\ e_i' = e_i + 1
            /\ UNCHANGED <<brace_count, escape_next, epc, analysis_result, alarm>>
       ELSE IF ~in_string /\ char = "{"
       THEN /\ brace_count' = brace_count + 1
            /\ e_i' = e_i + 1
            /\ UNCHANGED <<in_string, escape_next, epc, analysis_result, alarm>>
       ELSE IF ~in_string /\ char = "}"
       THEN /\ brace_count' = brace_count - 1
            /\ UNCHANGED <<in_string, escape_next>>
            /\ IF brace_count - 1 = 0
               THEN IF json_loads(JsonStr(clean_text, start_idx, e_i)) # JSONDecodeError
                    THEN /\ analysis_result' = json_loads(JsonStr(clean_text, start_idx, e_i))
                         /\ epc' = "done"
                         /\ alarm' = IF alarm = "armed" THEN "off" ELSE alarm
                         /\ UNCHANGED e_i
                    ELSE /\ e_i' = e_i + 1
                         /\ epc' = "logerr"
                         /\ UNCHANGED <<analysis_result, alarm>>
               ELSE /\ e_i' = e_i + 1
                    /\ UNCHANGED <<epc, analysis_result, alarm>>
       ELSE /\ e_i' = e_i + 1
            /\ UNCHANGED <<brace_count, in_string, escape_next, epc, analysis_result, alarm>>

\* lines 172-174: the failed span has been logged, the loop continues.
ELogged ==
    /\ epc = "logerr"
    /\ NotExtract
    /\ epc' = "scan"
    /\ UNCHANGED <<completion, clean_text, start_idx, e_i, brace_count, in_string,
                   escape_next, analysis_result, alarm, e_results>>

\* An extractor that hands out the rest of the text as if it had parsed.
BestEffort(text, start) ==
    [tag |-> "value", kind |-> "dict", src |-> SubSeq(text, start, Len(text))]

\* lines 176-177: what the scan returns when no span has parsed.
NotFound(text, start) == ErrorResponse

\* lines 176-177: the text is exhausted.
EExhausted ==
    /\ epc = "scan"
    /\ e_i > Len(clean_text)
    /\ NotExtract
    /\ analysis_result' = NotFound(clean_text, start_idx)
    /\ epc' = "done"
    /\ alarm' = IF alarm = "armed" THEN "off" ELSE alarm
    /\ UNCHANGED <<completion, clean_text, start_idx, e_i, brace_count, in_string,
                   escape_next, e_results>>

\* The alarm goes off (lines 183-184) while the call is inside the with block:
\* the handler raises TimeoutError in the code that is running, the handler of
\* line 123 catches it and the error response is returned.
ETimeout ==
    /\ epc \in {"parse", "log", "scan", "logerr"}
    /\ alarm = "armed"
    /\ NotExtract
    /\ alarm' = "fired"
    /\ analysis_result' = ErrorResponse
    /\ epc' = "done"
    /\ UNCHANGED <<completion, clean_text, start_idx, e_i, brace_count, in_string,
                   escape_next, e_results>>

\* The alarm goes off while a logging handler is writing the message of line
\* 116 or of line 172: Handler.emit catches the exception that the signal
\* handler raised (it catches Exception and reports it on stderr), and the
\* call goes on with no alarm pending.
ETimeoutInLogging ==
    /\ epc \in {"log", "logerr"}
    /\ alarm = "armed"
    /\ NotExtract
    /\ alarm' = "fired"
    /\ UNCHANGED <<completion, epc, clean_text, start_idx, e_i, brace_count, in_string,
                   escape_next, analysis_result, e_results>>

\* Number of calls on one response text in a behaviour.
MaxCalls == 2

\* The caller calls _parse_api_response again on the same response; the
\* result of the call that has returned is kept for comparison.  The locals
\* of the new call have no value until the code assigns them.
ECallAgain ==
    /\ epc = "done"
    /\ Len(e_results) + 1 < MaxCalls
    /\ NotExtract
    /\ e_results' = Append(e_results, [result |-> analysis_result, fired |-> alarm = "fired"])
    /\ epc' = "start"
    /\ alarm' = "off"
    /\ analysis_result' = Unset
    /\ UNCHANGED <<completion, clean_text, start_idx, e_i, brace_count, in_string,
                   escape_next>>


----------------------------------------------------------------------------
(* The listing fetcher, 1 officiele_bekendmakingen_site.py lines 10-29 *)

\* The default of the parameter retry_codes, line 10.
retry_codes == {500}

\* The default of the parameter backoff, line 10.
backoff == 1

\* What requests.get can do: return a response with a status, or raise.
Statuses == {200, 404, 500}

Exceptions == {"ReadTimeout", "ConnectionError"}

Outcomes ==
    [kind : {"response"}, status : Statuses, exc : {"none"}]
        \cup [kind : {"exception"}, status : {0}, exc : Exceptions]

\* r.raise_for_status() raises HTTPError, a RequestException, for 4xx and 5xx.
raise_for_status(status) == 400 <= status /\ status < 600

\* One entry of the history of a call.
Event(ev, o, secs) == [ev |-> ev, status |-> o.status, exc |-> o.exc, secs |-> secs]

Nothing == [kind |-> "none", status |-> 0, exc |-> "none"]

\* What the fetcher leaves alone.
NotFetch ==
    UNCHANGED <<program, diskVars, downloadVars, metaDiskVars, metaVars, retryVars,
                extractVars, speechVars, processVars, enumVars>>

\* A range with one turn too many.
InRangeInclusive(i, n) == i <= n

\* line 11: i in range(max_retries)
InRange(i, n) == i < n

\* lines 11-28: one turn of the loop.  The random wait of lines 13-14 is in
\* the history with no length (it is a float between 1 and 2).
Attempt(o) ==
    /\ gpc = "loop"
    /\ InRange(g_i, max_retries)
    /\ NotFetch
    /\ LET got == g_trace \o <<Event("wait", Nothing, 0), Event("get", o, 0)>> IN
       IF o.kind = "response" /\ o.status \in retry_codes
       THEN \* lines 16-22
            /\ g_trace' = Append(got, Event("sleep", Nothing, backoff * (g_i + 1)))
            /\ g_i' = g_i + 1
            /\ UNCHANGED gpc
       ELSE IF o.kind = "response" /\ ~raise_for_status(o.status)
       THEN \* line 24
            /\ g_trace' = Append(got, Event("return", o, 0))
            /\ gpc' = "done"
            /\ UNCHANGED g_i
       ELSE \* lines 25-28: the exception is logged and the loop goes on
            /\ g_trace' = got
            /\ g_i' = g_i + 1
            /\ UNCHANGED gpc
    /\ UNCHANGED max_retries

\* line 29
MaxRetriesExceeded ==
    /\ gpc = "loop"
    /\ ~InRange(g_i, max_retries)
    /\ NotFetch
    /\ g_trace' = Append(g_trace, Event("raise", Nothing, 0))
    /\ gpc' = "done"
    /\ UNCHANGED <<max_retries, g_i>>

----------------------------------------------------------------------------
(* process_text, fireworks_processor.py lines 55-95 *)

\* The keys 'gevonden_delegitimatie' and 'gevallen_delegitimatie' of lines
\* 74-75, by one letter each.
gevonden_delegitimatie == <<"g">>

gevallen_delegitimatie == <<"v">>

\* The members of a well-formed object from the key at position j on.
RECURSIVE MembersFrom(_, _)
MembersFrom(s, j) ==
    LET e == StringEnd(s, j + 1)
        k == SkipWs(s, e)
        b == SkipWs(s, k + 1)
        v == ValueEnd(s, b)
        m == SkipWs(s, v)
        member == [key |-> SubSeq(s, j + 1, e - 2), value |-> SubSeq(s, b, v - 1)]
    IN  IF At(s, m) = "," THEN <<member>> \o MembersFrom(s, SkipWs(s, m + 1))
        ELSE <<member>>

\* The members of the object that the text s spells.
Members(s) ==
    IF At(s, SkipWs(s, 2)) = "}" THEN <<>> ELSE MembersFrom(s, SkipWs(s, 2))

\* The empty list, the default of the get calls of lines 74-75.
EmptyList == <<"[", "]">>

\* dict.get(key, []) on a result: on the error response of lines 195-206,
\* whose 'gevonden_delegitimatie' is [], and on a parsed object, where the
\* last member of that name counts.
Get(r, key) ==
    IF r.tag = "error_response" THEN EmptyList
    ELSE LET ms == Members(r.src)
             at == {i \in 1..Len(ms) : ms[i].key = key}
         IN  IF at = {} THEN EmptyList
             ELSE ms[CHOOSE i \in at : \A j \in at : j <= i].value

\* len(value) raises TypeError for a number, a literal or null.
HasLen(value) == value[1] \in {"[", "{", "\""}

\* len(value) > 0 for a list, an object or a string.
NonEmpty(value) ==
    IF value[1] = "\"" THEN Len(value) > 2
    ELSE At(value, SkipWs(value, 2)) \notin {"]", "}"}

\* has_delegitimation, lines 72-76, with the short circuit of "and" and "or":
\* "true", "false", or the exception that len raises.
has_delegitimation(r) ==
    IF r.kind # "dict" THEN "false"
    ELSE IF ~HasLen(Get(r, gevonden_delegitimatie)) THEN "TypeError"
    ELSE IF NonEmpty(Get(r, gevonden_delegitimatie)) THEN "true"
    ELSE IF ~HasLen(Get(r, gevallen_delegitimatie)) THEN "TypeError"
    ELSE IF NonEmpty(Get(r, gevallen_delegitimatie)) THEN "true"
    ELSE "false"

\* The subclasses of requests.exceptions.RequestException that lines 58-66
\* raise: from session.post, raise_for_status and response.json().
RequestExceptions == {"Timeout", "ConnectionError", "HTTPError", "JSONDecodeError"}

\* The other exceptions: line 103 on a choice that is no dict, line 74 on a
\* value without a length.
OtherExceptions == {"AttributeError", "TypeError"}

\* A function with the handlers of lines 87 and 90 only.
CaughtIfRequest(exc) == exc \in RequestExceptions

\* lines 87-95: the handlers for Timeout, RequestException and Exception.
Caught(exc) == exc = "Timeout" \/ exc \in RequestExceptions \/ exc \in RequestExceptions \cup OtherExceptions

\* A body that is not JSON, and a body whose first choice is not a dict.
NotJson == <<"NotJson">>

BadChoice == <<"BadChoice">>

\* What the model answers (the text of the first choice).
ProcessTexts ==
    { <<"{", "\"", "g", "\"", ":", " ", "[", "1", "]", "}">>,   \* {"g": [1]}
      <<"{", "\"", "g", "\"", ":", " ", "[", "]", "}">>,   \* {"g": []}
      <<"{", "\"", "g", "\"", ":", " ", "[", "]", ",", " ", "\"", "v", "\"", ":", " ", "[", "1", "]", "}">>,   \* {"g": [], "v": [1]}
      <<"{", "\"", "g", "\"", ":", " ", "1", "}">>,   \* {"g": 1}
      <<"{", "\"", "v", "\"", ":", " ", "n", "u", "l", "l", "}">>,   \* {"v": null}
      <<"x", " ", "{", "\"", "g", "\"", ":", " ", "[", "1", "]", "}", " ", "y">>,   \* x {"g": [1]} y
      <<"{", "\"", "g", "\"", ":", " ", "[", "1", "]">>,   \* {"g": [1]
      <<"{", "\"", "g", "\"", ":", " ", "}", "{", "\"", "g", "\"", ":", " ", "[", "1", "]", "}">>,   \* {"g": }{"g": [1]}
      <<"n", "o", "i", "s", "e">>,   \* noise
      <<"1">> }   \* 1

\* What session.post gives, lines 58-62.
Responses ==
    {[kind |-> k, status |-> 0, body |-> <<>>] : k \in {"Timeout", "ConnectionError"}}
    \cup {[kind |-> "response", status |-> 500, body |-> <<>>]}
    \cup {[kind |-> "response", status |-> 200, body |-> b] :
              b \in {NotJson, NoChoices, BadChoice} \cup ProcessTexts}

\* What process_text leaves alone.
NotProcess ==
    UNCHANGED <<program, diskVars, downloadVars, metaDiskVars, metaVars, retryVars,
                fetchVars, speechVars, enumVars>>

\* The exception exc leaves the try block of line 55: a handler returns the
\* error response, or the exception reaches the caller.
Handle(exc) ==
    IF Caught(exc)
    THEN ppc' = "done" /\ returned' = [result |-> ErrorResponse, meta |-> FALSE]
    ELSE ppc' = "raised" /\ UNCHANGED returned

\* The exception that lines 58-66 and 103 raise on this response, "none" when
\* they raise none.
Raised(r) ==
    IF r.kind # "response" THEN r.kind
    ELSE IF raise_for_status(r.status) THEN "HTTPError"
    ELSE IF r.body = NotJson THEN "JSONDecodeError"
    ELSE IF r.body = BadChoice THEN "AttributeError"
    ELSE "none"

\* lines 56-69: the request, the status check, the body, and the call of
\* _parse_api_response.
PPost ==
    /\ ppc = "post"
    /\ NotProcess
    /\ UNCHANGED response
    /\ IF Raised(response) # "none"
       THEN Handle(Raised(response)) /\ UNCHANGED extractVars
       ELSE /\ ppc' = "parse"
            /\ completion' = response.body
            /\ epc' = "start"
            /\ UNCHANGED <<returned, clean_text, start_idx, e_i, brace_count, in_string,
                           escape_next, analysis_result, alarm, e_results>>

\* lines 72-85: the flag, the _meta entry, the return.
PFlag ==
    /\ ppc = "parse"
    /\ epc = "done"
    /\ NotProcess
    /\ UNCHANGED <<response, extractVars>>
    /\ IF has_delegitimation(analysis_result) = "TypeError"
       THEN Handle("TypeError")
       ELSE /\ ppc' = "done"
            /\ returned' = [result |-> analysis_result,
                            meta |-> has_delegitimation(analysis_result) = "true"]

----------------------------------------------------------------------------
(* The speech pass, 3 process.py lines 131-192 *)

\* The documents in the folders: a text that does not parse, or the list of
\* its spreekbeurt elements (one with a speaker and text, one with a speaker
\* and no al elements, one without a spreker child).
Malformed == <<"malformed">>

Xml(file) ==
    CASE file = <<"a">> -> <<"speech">>
      [] file = <<"c">> -> <<"speech", "no_spreker", "no_text">>
      [] file = <<"b">> -> Malformed
      [] OTHER -> <<>>

\* extract_speech_text, lines 89-95
extract_speech_text(element) == IF element = "no_text" THEN <<>> ELSE <<"t">>

\* process_speech, lines 97-129, for the k-th element of the document; the
\* position stands for the speaker's name and party.
process_speech(file_id, k, element) ==
    [file_id |-> file_id, speech |-> k, speech_text |-> extract_speech_text(element)]

FieldNames == [file_id |-> <<"file_id">>, speech |-> 0, speech_text |-> <<"speech_text">>]

\* get_doc and get_meta raise: lines 56-58, 65-66, 68-70 (an empty file, or
\* no file column) and 72-73.
DocumentFails(g, file) ==
    \/ Xml(file) = Malformed
    \/ metafile[g] = NoRows
    \/ metafile[g] = <<>>
    \/ metafile[g][1] # Header
    \/ file \notin Names(metafile[g])

\* process_document, lines 131-146: None, or the records of the elements that
\* have a spreker child.
process_document(g, file) ==
    IF DocumentFails(g, file)
    THEN [none |-> TRUE, list |-> <<>>]
    ELSE LET xml == Xml(file)
             all == [k \in 1..Len(xml) |-> process_speech(file, k, xml[k])]
             HasSpeaker(r) == xml[r.speech] # "no_spreker"
         IN  [none |-> FALSE, list |-> SelectSeq(all, HasSpeaker)]

\* A save that stores a row without metadata for a document that failed.
save_placeholder(result, file) ==
    IF result.none
    THEN [exists |-> TRUE, lines |-> file.lines \o <<[file_id |-> None, speech |-> 0, speech_text |-> <<>>]>>]
    ELSE file

\* lines 184-185 and save_to_csv, lines 148-162
save_to_csv(result, file) ==
    IF result.none \/ result.list = <<>> THEN file
    ELSE IF file.exists
    THEN [exists |-> TRUE, lines |-> file.lines \o result.list]
    ELSE [exists |-> TRUE, lines |-> <<FieldNames>> \o result.list]

NoOutput == [exists |-> FALSE, lines |-> <<>>]

\* Number of runs of the speech pass in a behaviour.
MaxSpeechRuns == 2

\* What the speech pass leaves alone.
NotSpeech ==
    UNCHANGED <<program, diskVars, downloadVars, metaDiskVars, metaVars, retryVars,
                extractVars, fetchVars, processVars, enumVars>>

\* main, line 165
SpeechStart ==
    /\ program = "speech"
    /\ spc = "idle"
    /\ s_runs < MaxSpeechRuns
    /\ NotSpeech
    /\ spc' = "groups"
    /\ sgi' = 1
    /\ s_runs' = s_runs + 1
    /\ UNCHANGED <<parsed, s_files, speeches, s_completed, s_first>>

\* lines 167-179: a year without files (no folder, or an empty one) is left
\* at once.
SpeechGroup ==
    /\ spc = "groups"
    /\ sgi \in Groups
    /\ NotSpeech
    /\ s_files' = folder[sgi]
    /\ IF folder[sgi] = {}
       THEN sgi' = sgi + 1 /\ UNCHANGED spc
       ELSE spc' = "files" /\ UNCHANGED sgi
    /\ UNCHANGED <<parsed, speeches, s_runs, s_completed, s_first>>

\* lines 182-186: the next file, in the order glob gives, which is any.
SpeechFile(file) ==
    /\ spc = "files"
    /\ file \in s_files
    /\ NotSpeech
    /\ speeches' = process_document(sgi, file)
    /\ parsed' = [parsed EXCEPT ![sgi] = save_to_csv(process_document(sgi, file), @)]
    /\ s_files' = s_files \ {file}
    /\ IF s_files = {file}
       THEN spc' = "groups" /\ sgi' = sgi + 1
       ELSE UNCHANGED <<spc, sgi>>
    /\ UNCHANGED <<s_runs, s_completed, s_first>>

\* main returns after the last year.
SpeechEnd ==
    /\ spc = "groups"
    /\ sgi \notin Groups
    /\ NotSpeech
    /\ spc' = "idle"
    /\ s_completed' = s_completed + 1
    /\ s_first' = IF s_completed = 0 THEN parsed ELSE s_first
    /\ UNCHANGED <<parsed, sgi, s_files, speeches, s_runs>>

\* line 158: open(mode) on the output; 'w' creates the file, empty until the
\* buffered header and rows are written at the close, 'a' leaves it as it is.
OpenedOutput(file) == IF file.exists THEN file ELSE [exists |-> TRUE, lines |-> <<>>]

\* The process is killed inside save_to_csv, between the open of line 158 and
\* the close of the with block: what was buffered is lost.
SpeechKilledInSave(file) ==
    /\ spc = "files"
    /\ file \in s_files
    /\ NotSpeech
    /\ ~process_document(sgi, file).none
    /\ process_document(sgi, file).list # <<>>
    /\ speeches' = process_document(sgi, file)
    /\ parsed' = [parsed EXCEPT ![sgi] = OpenedOutput(@)]
    /\ spc' = "idle"
    /\ UNCHANGED <<sgi, s_files, s_runs, s_completed, s_first>>

\* The process is killed.
SpeechStop ==
    /\ spc \in {"groups", "files"}
    /\ NotSpeech
    /\ spc' = "idle"
    /\ UNCHANGED <<parsed, sgi, s_files, speeches, s_runs, s_completed, s_first>>

----------------------------------------------------------------------------
(* The enumeration script step by step, 1 lines 55-71 *)

\* What the enumeration script leaves alone.
NotEnum ==
    UNCHANGED <<program, folder, RESUME_FILE, ERROR_LOG, incomplete, downloadVars, metaDiskVars,
                metaVars,
                retryVars, extractVars, fetchVars, speechVars, processVars>>

\* What get_and_retry and the parsing of its response can end in: a response
\* that parses, the RequestException of line 29, or the ParserError that
\* html.fromstring raises for a response without a document.
ListingOutcomes == {"ok", "RequestException", "ParserError"}

\* lines 43-44: the page numbers of the pagination index; a listing of one
\* page has no index.
numbers(g) == IF Len(Remote[g]) > 1 THEN [i \in 1..Len(Remote[g]) |-> i] ELSE <<>>

\* lines 40-45
get_npages(g) ==
    IF numbers(g) # <<>>
    THEN CHOOSE m \in 1..Len(numbers(g)) : \A i \in 1..Len(numbers(g)) : numbers(g)[i] <= m
    ELSE 1

\* lines 31-38: the hrefs of one listing page.
get_links(g, page) == IF page \in 1..Len(Remote[g]) THEN <<Remote[g][page]>> ELSE <<>>

\* lines 70-71: the error is logged and the for loop of line 57 takes the
\* next vergaderjaar.
FailedToScrape(pc) == pc

\* line 55: the script starts.
NStart ==
    /\ program = "enumerate"
    /\ npc = "off"
    /\ npc' = "group"
    /\ UNCHANGED <<links, ngi, n_page, n_max_page, n_file, n_failed>>
    /\ NotEnum

\* lines 57-62: the link file of the year is opened with "w" and gets its
\* header row.
NGroup ==
    /\ program = "enumerate"
    /\ npc = "group"
    /\ ngi <= Len(vergaderjaren)
    /\ links' = [links EXCEPT ![ngi] = <<>>]
    /\ n_file' = <<>>
    /\ npc' = "npages"
    /\ UNCHANGED <<ngi, n_page, n_max_page, n_failed>>
    /\ NotEnum

\* line 57: the loop is exhausted and the script ends.
NEnd ==
    /\ program = "enumerate"
    /\ npc = "group"
    /\ ngi > Len(vergaderjaren)
    /\ npc' = "done"
    /\ UNCHANGED <<links, ngi, n_page, n_max_page, n_file, n_failed>>
    /\ NotEnum

\* lines 70-71 and the end of the with block of line 59: the handler runs
\* inside the with block, which then closes the file with the rows written
\* so far; pages counts the pages whose rows were written.
NFailed(pages) ==
    /\ links' = [links EXCEPT ![ngi] = n_file]
    /\ n_failed' = n_failed \cup {<<ngi, pages>>}
    /\ ngi' = ngi + 1
    /\ npc' = FailedToScrape("group")
    /\ UNCHANGED <<n_page, n_max_page, n_file>>

\* An exception that line 70 does not name leaves the with block, which
\* closes the file, and ends the script.
NCrashed ==
    /\ links' = [links EXCEPT ![ngi] = n_file]
    /\ npc' = "crashed"
    /\ UNCHANGED <<ngi, n_page, n_max_page, n_file, n_failed>>

\* line 64: max_page = get_npages(url)
NPages(outcome) ==
    /\ program = "enumerate"
    /\ npc = "npages"
    /\ CASE outcome = "ok" ->
              /\ n_max_page' = get_npages(ngi)
              /\ n_page' = 1
              /\ npc' = "page"
              /\ UNCHANGED <<links, ngi, n_file, n_failed>>
         [] outcome = "RequestException" -> NFailed(0)
         [] OTHER -> NCrashed
    /\ NotEnum

\* lines 65-68: one turn of the loop over the pages; every href of the page
\* is written as a row.
NPage(outcome) ==
    /\ program = "enumerate"
    /\ npc = "page"
    /\ n_page <= n_max_page
    /\ CASE outcome = "ok" ->
              /\ n_file' = n_file \o get_links(ngi, n_page)
              /\ n_page' = n_page + 1
              /\ UNCHANGED <<links, npc, ngi, n_max_page, n_failed>>
         [] outcome = "RequestException" -> NFailed(n_page - 1)
         [] OTHER -> NCrashed
    /\ NotEnum

\* line 69 and the end of the with block: every page was written and the
\* file is closed.
NSaved ==
    /\ program = "enumerate"
    /\ npc = "page"
    /\ n_page > n_max_page
    /\ links' = [links EXCEPT ![ngi] = n_file]
    /\ ngi' = ngi + 1
    /\ npc' = "group"
    /\ UNCHANGED <<n_page, n_max_page, n_file, n_failed>>
    /\ NotEnum

----------------------------------------------------------------------------
\* A checkpoint file as a run can find it before any item was saved: missing,
\* not readable, empty (open("w") has truncated it and the text was not yet
\* written), or holding a text without a comma.
StartFiles == {NoFile, <<"unreadable">>, <<>>, <<"2", "2">>}

InitLinks ==
    /\ links = [g \in Groups |-> NoRows]
    /\ folder = [g \in Groups |-> {}]

InitDisk ==
    /\ InitLinks
    /\ RESUME_FILE = NoFile
    /\ ERROR_LOG = <<>>
    /\ incomplete = [g \in Groups |-> {}]

InitDownload ==
    /\ dpc = "idle"
    /\ last_year = None
    /\ last_file = None
    /\ resume_processing = FALSE
    /\ dgi = 1
    /\ dri = 1
    /\ file_list = {}
    /\ visited = {}
    /\ attempted = {}
    /\ start_ckpt = <<None, None>>
    /\ written = <<>>

InitMetaDisk ==
    /\ metafile = [g \in Groups |-> NoRows]
    /\ META_RESUME_FILE = NoFile

InitMeta ==
    /\ mpc = "idle"
    /\ mgi = 1
    /\ mi = 1
    /\ todo = <<>>
    /\ mbuf = <<>>
    /\ m_last_file = None
    /\ m_resume = FALSE
    /\ m_visited = {}
    /\ m_attempted = {}
    /\ m_start_ckpt = <<None, None>>
    /\ m_written = <<>>
    /\ m_storage_error = FALSE

InitRetry ==
    /\ rpc = "idle"
    /\ rfi = 1
    /\ retry_runs = 0

\* The extractor is not in use.
InitFetch ==
    /\ gpc = "off"
    /\ max_retries = 0
    /\ g_i = 0
    /\ g_trace = <<>>

InitSpeech ==
    /\ parsed = [g \in Groups |-> NoOutput]
    /\ spc = "idle"
    /\ sgi = 1
    /\ s_files = {}
    /\ speeches = [none |-> TRUE, list |-> <<>>]
    /\ s_runs = 0
    /\ s_completed = 0
    /\ s_first = [g \in Groups |-> NoOutput]

InitExtract ==
    /\ completion = <<>>
    /\ epc = "off"
    /\ clean_text = <<>>
    /\ start_idx = 0
    /\ e_i = 0
    /\ brace_count = 0
    /\ in_string = FALSE
    /\ escape_next = FALSE
    /\ analysis_result = Unset
    /\ alarm = "off"
    /\ e_results = <<>>

\* process_text is not in use.
InitProcess ==
    /\ ppc = "off"
    /\ response = [kind |-> "none", status |-> 0, body |-> <<>>]
    /\ returned = [result |-> Unset, meta |-> FALSE]

\* The enumeration script is not being followed step by step.
InitEnum ==
    /\ npc = "off"
    /\ ngi = 1
    /\ n_page = 1
    /\ n_max_page = 0
    /\ n_file = <<>>
    /\ n_failed = {}

\* Nothing has run yet; the enumeration script and the download pass are run.
Init ==
    /\ program = "download"
    /\ InitLinks
    /\ RESUME_FILE \in StartFiles
    /\ ERROR_LOG = <<>>
    /\ incomplete = [g \in Groups |-> {}]
    /\ InitFetch /\ InitSpeech
    /\ InitDownload /\ InitMetaDisk /\ InitMeta /\ InitRetry /\ InitExtract /\ InitProcess /\ InitEnum

\* The longest text of the exhaustive part of the extractor's inputs.
MaxLen == 4

\* The characters its texts are made of.
JsonChars == {"{", "}", "\"", "\\", ":", "1"}

\* The examples of the specification's section 8, with one-letter names.
Examples ==
    { <<"{", "\"", "b", "\"", ":", " ", "}", "{", "\"", "v", "\"", ":", " ", "1", "}">>,
      <<"p", " ", "{", "\"", "a", "\"", ":", " ", "1", ",", " ", "\"", "b", "\"", ":", " ",
        "{", "\"", "c", "\"", ":", " ", "2", "}", "}", " ", "s">>,
      <<"{", "\"", "a", "\"", ":", " ", "\"", "t", " ", "}", " ", "i", "\"", "}">>,
      <<"n", "o", "i", "s", "e", " ", "n", "o", "i", "s", "e">>,
      <<Tick, Tick, Tick, "j", "s", "o", "n", " ", "{", "}", " ", Tick, Tick, Tick>>,
      NoChoices }

\* An answer that is a JSON array around an object.
ArrayExamples ==
    { <<"[", "{", "\"", "a", "\"", ":", " ", "1", "}", "]">> }

\* Answers with a code fence inside a string value, bare and wrapped in a
\* leading and a trailing fence marker, and a wrapped answer without one.
FenceExamples ==
    { <<"{", "\"", "a", "\"", ":", " ", "\"", Tick, Tick, Tick, "\"", "}">>,
      <<Tick, Tick, Tick, "j", "s", "o", "n", " ",
        "{", "\"", "a", "\"", ":", " ", "\"", Tick, Tick, Tick, "\"", "}",
        " ", Tick, Tick, Tick>>,
      <<Tick, Tick, Tick, "j", "s", "o", "n", " ",
        "{", "\"", "a", "\"", ":", " ", "1", "}", " ", Tick, Tick, Tick>> }

Texts ==
    UNION {[1..n -> JsonChars] : n \in 0..MaxLen} \cup Examples \cup ArrayExamples
        \cup FenceExamples

\* One call of _parse_api_response on any of the texts.
InitCall ==
    /\ program = "extract"
    /\ InitFetch /\ InitSpeech
    /\ InitDisk /\ InitDownload /\ InitMetaDisk /\ InitMeta /\ InitRetry
    /\ InitProcess /\ InitEnum
    /\ completion \in Texts
    /\ epc = "start"
    /\ clean_text = <<>>
    /\ start_idx = 0
    /\ e_i = 0
    /\ brace_count = 0
    /\ in_string = FALSE
    /\ escape_next = FALSE
    /\ analysis_result = Unset
    /\ alarm = "off"
    /\ e_results = <<>>

\* The files the download pass can leave in a year's folder: any of the
\* listed ids that the exclusion rule lets through.
Downloadable(g) == {Remote[g][i] : i \in 1..Len(Remote[g])} \ {id \in {Remote[g][i] : i \in 1..Len(Remote[g])} : Excluded(id)}

\* The metadata pass starts from what the download pass has left.
InitAfterDownload ==
    /\ program = "metadata"
    /\ links = [g \in Groups |-> Remote[g]]
    /\ folder \in [Groups -> SUBSET UNION {Downloadable(g) : g \in Groups}]
    /\ \A g \in Groups : folder[g] \subseteq Downloadable(g)
    /\ RESUME_FILE = NoFile
    /\ ERROR_LOG = <<>>
    /\ incomplete = [g \in Groups |-> {}]
    /\ metafile = [g \in Groups |-> NoRows]
    /\ META_RESUME_FILE \in StartFiles
    /\ InitFetch /\ InitSpeech
    /\ InitDownload /\ InitMeta /\ InitRetry /\ InitExtract /\ InitProcess /\ InitEnum

NextDownload ==
    \/ \E g \in Groups : \E k \in 0..Len(Remote[g]) : Enumerate(g, k)
    \/ DStart
    \/ DGroup
    \/ DEnd
    \/ DRow
    \/ \E outcome \in FetchOutcomes : DFetch(outcome)
    \/ \E how \in WriteOutcomes : DWrite(how)
    \/ \E how \in WriteOutcomes : DSave(how)
    \/ DStop

\* The download pass, run any number of times, the link files being
\* rewritten between runs.
SpecDownload == Init /\ [][NextDownload]_vars

NextMeta ==
    \/ MStart
    \/ MGroup
    \/ MItem
    \/ \E ok \in BOOLEAN : MFetch(ok)
    \/ \E ok \in BOOLEAN : MRow(ok)
    \/ \E how \in WriteOutcomes : MSave(how)
    \/ MFlush
    \/ MEnd
    \/ MStop
    \/ RStart
    \/ \E ok \in BOOLEAN : RFile(ok)
    \/ RStop

\* The metadata pass and the retry script, run any number of times one
\* after the other, over the folders the download pass has left.
SpecMeta == InitAfterDownload /\ [][NextMeta]_vars

\* Either pass of the scraper, run any number of times.
InitPasses == Init \/ InitAfterDownload

NextPasses == NextDownload \/ NextMeta

SpecPasses == InitPasses /\ [][NextPasses]_vars

\* The link files a previous run of the enumeration script can have left.
InitEnumerate ==
    /\ program = "enumerate"
    /\ links \in [Groups -> {NoRows} \cup UNION {{Prefix(g, k) : k \in 0..Len(Remote[g])} : g \in Groups}]
    /\ \A g \in Groups : links[g] = NoRows \/ \E k \in 0..Len(Remote[g]) : links[g] = Prefix(g, k)
    /\ folder = [g \in Groups |-> {}]
    /\ RESUME_FILE = NoFile
    /\ ERROR_LOG = <<>>
    /\ incomplete = [g \in Groups |-> {}]
    /\ InitFetch /\ InitSpeech
    /\ InitDownload /\ InitMetaDisk /\ InitMeta /\ InitRetry /\ InitExtract /\ InitProcess /\ InitEnum

NextEnumerate ==
    \/ NStart
    \/ NGroup
    \/ NEnd
    \/ \E outcome \in ListingOutcomes : NPages(outcome)
    \/ \E outcome \in ListingOutcomes : NPage(outcome)
    \/ NSaved

SpecEnumerate == InitEnumerate /\ [][NextEnumerate]_vars

NextExtract ==
    \/ EEnter
    \/ EParse
    \/ EReturnParsed
    \/ EScan
    \/ ELogged
    \/ EExhausted
    \/ ETimeout
    \/ ETimeoutInLogging
    \/ ECallAgain

\* The calls of the extractor on each text.
SpecExtract == InitCall /\ [][NextExtract]_vars

\* One call of process_text on each response.
InitText ==
    /\ program = "process"
    /\ InitFetch /\ InitSpeech
    /\ InitDisk /\ InitDownload /\ InitMetaDisk /\ InitMeta /\ InitRetry
    /\ InitExtract /\ InitEnum
    /\ ppc = "post"
    /\ response \in Responses
    /\ returned = [result |-> Unset, meta |-> FALSE]

NextProcess ==
    \/ PPost
    \/ EEnter
    \/ EParse
    \/ EReturnParsed
    \/ EScan
    \/ ELogged
    \/ EExhausted
    \/ ETimeout
    \/ ETimeoutInLogging
    \/ PFlag

SpecProcess == InitText /\ [][NextProcess]_vars

\* The parameter max_retries of a call, up to this bound.
MaxRetries == 3

\* A call get_and_retry(url, max_retries).
InitGet ==
    /\ program = "fetch"
    /\ InitDisk /\ InitDownload /\ InitMetaDisk /\ InitMeta /\ InitRetry /\ InitExtract /\ InitProcess /\ InitEnum
    /\ InitSpeech
    /\ gpc = "loop"
    /\ max_retries \in 1..MaxRetries
    /\ g_i = 0
    /\ g_trace = <<>>

NextFetch ==
    \/ \E o \in Outcomes : Attempt(o)
    \/ MaxRetriesExceeded

SpecFetch == InitGet /\ [][NextFetch]_vars

\* The speech pass starts from what the download pass and the metadata pass
\* have left: for each year some of the files, and a metadata store that is
\* missing, or has a row for each file, or for each but one.
MetaStores(files) ==
    {NoRows, <<Header>> \o Sorted(files), <<Header>> \o Sorted(files \ {<<"c">>})}

InitParse ==
    /\ program = "speech"
    /\ links = [g \in Groups |-> Remote[g]]
    /\ folder \in [Groups -> SUBSET UNION {Downloadable(g) : g \in Groups}]
    /\ \A g \in Groups : folder[g] \subseteq Downloadable(g)
    /\ RESUME_FILE = NoFile
    /\ ERROR_LOG = <<>>
    /\ incomplete = [g \in Groups |-> {}]
    /\ metafile \in [Groups -> UNION {MetaStores(S) : S \in SUBSET UNION {Downloadable(g) : g \in Groups}}]
    /\ \A g \in Groups : metafile[g] \in MetaStores(folder[g])
    /\ META_RESUME_FILE = NoFile
    /\ InitDownload /\ InitMeta /\ InitRetry /\ InitExtract /\ InitProcess /\ InitEnum /\ InitFetch /\ InitSpeech

NextSpeech ==
    \/ SpeechStart
    \/ SpeechGroup
    \/ \E file \in UNION {Downloadable(g) : g \in Groups} : SpeechFile(file)
    \/ \E file \in UNION {Downloadable(g) : g \in Groups} : SpeechKilledInSave(file)
    \/ SpeechEnd
    \/ SpeechStop

SpecSpeech == InitParse /\ [][NextSpeech]_vars

----------------------------------------------------------------------------
(* Claims about the JSON extractor *)

\* The scan of the specification's section 4.6, step 2, from position i at
\* nesting depth d: the position at which the depth returns to zero, 0 when it
\* never does.
RECURSIVE ScanEnd(_, _, _, _, _)
ScanEnd(s, i, d, instr, esc) ==
    IF i > Len(s) THEN 0
    ELSE IF esc THEN ScanEnd(s, i + 1, d, instr, FALSE)
    ELSE IF s[i] = "\\" THEN ScanEnd(s, i + 1, d, instr, TRUE)
    ELSE IF s[i] = "\"" THEN ScanEnd(s, i + 1, d, ~instr, FALSE)
    ELSE IF ~instr /\ s[i] = "{" THEN ScanEnd(s, i + 1, d + 1, instr, FALSE)
    ELSE IF ~instr /\ s[i] = "}"
         THEN IF d - 1 = 0 THEN i ELSE ScanEnd(s, i + 1, d - 1, instr, FALSE)
    ELSE ScanEnd(s, i + 1, d, instr, FALSE)

\* The end of the brace-balanced span that begins with the brace at p.
SpanEnd(s, p) == ScanEnd(s, p, 0, FALSE, FALSE)

\* The text of that span.
Span(s, p) == SubSeq(s, p, SpanEnd(s, p))

\* The direct parse fails, and so does the first brace-balanced span.
FirstCandidateFails(s) ==
    /\ json_loads(s) = JSONDecodeError
    /\ FindBrace(s) # 0
    /\ SpanEnd(s, FindBrace(s)) # 0
    /\ json_loads(Span(s, FindBrace(s))) = JSONDecodeError

\* The objects parsed from the brace-balanced spans that begin at a brace
\* after the first span.
LaterObjects(s) ==
    {json_loads(Span(s, p)) :
        p \in {q \in (SpanEnd(s, FindBrace(s)) + 1)..Len(s) :
                  /\ s[q] = "{"
                  /\ SpanEnd(s, q) # 0
                  /\ json_loads(Span(s, q)) # JSONDecodeError}}

\* C1: when the first brace-balanced span does not parse and a span that
\* begins at a later brace parses as an object, the extractor returns such an
\* object, not the error response.
C1_RecoversFromFailedCandidate ==
    (/\ epc = "done"
     /\ completion # NoChoices
     /\ alarm # "fired"
     /\ FirstCandidateFails(clean_text)
     /\ LaterObjects(clean_text) # {})
    => analysis_result \in LaterObjects(clean_text)

----------------------------------------------------------------------------
(* Claims about the checkpoint and the stores *)

\* The elements of a sequence.
Range(f) == {f[i] : i \in 1..Len(f)}

\* The record rows of a store file on disk.
RowsOnDisk(lines) == IF lines = NoRows THEN {} ELSE Range(lines) \ {Header}

\* A checkpoint read as a pair whose year is one of the configured years.
Resumed(ckpt) ==
    /\ Len(ckpt) = 2
    /\ ckpt[1] # None
    /\ \E g \in Groups : vergaderjaren[g] = ckpt[1]

\* The place of that year in the configured order.
GroupOf(ckpt) == CHOOSE g \in Groups : vergaderjaren[g] = ckpt[1]

\* The ids of a link file (none when the file is missing).
Listed(g) == IF links[g] = NoRows THEN {} ELSE Range(links[g])

\* An item of the download pass is complete: stored, or excluded.
Complete(g, id) == id \in folder[g] \/ Excluded(id)

\* C2: whenever the checkpoint file of the metadata pass names item x of year
\* g, the row of x is on disk in the metadata file of g.
C2_CheckpointNeverAheadOfStore ==
    \A g \in Groups : \A x \in folder[g] :
        META_RESUME_FILE = save_last_processed(vergaderjaren[g], x)
        => x \in RowsOnDisk(metafile[g])

\* C3: when a resumed run of the download pass has ended, every year after
\* the checkpoint's year was processed in full: each of its listed items is
\* excluded, stored, or was requested in this run.
C3_LaterGroupsProcessedInFull ==
    (dpc = "done" /\ Resumed(start_ckpt))
    => \A g \in Groups : \A id \in Listed(g) :
           g > GroupOf(start_ckpt)
           => Excluded(id) \/ id \in folder[g] \/ <<g, id>> \in attempted

\* C4: in a run of the download pass that began without a checkpoint,
\* whenever the checkpoint is (G, I), every item listed for a year before G,
\* and every item listed for G up to and including I, is stored or excluded.
C4_CheckpointMeansComplete ==
    \A G \in Groups : \A p \in 1..Len(links[G]) :
        (/\ links[G] # NoRows
         /\ dpc \notin {"idle", "aborted"}
         /\ start_ckpt = <<None, None>>
         /\ written # <<>>
         /\ written[Len(written)] = <<G, p>>
         /\ RESUME_FILE = save_last_processed(vergaderjaren[G], links[G][p]))
        => /\ \A q \in 1..p : Complete(G, links[G][q])
           /\ \A g \in 1..(G - 1) : \A id \in Listed(g) : Complete(g, id)

\* C5: a run of the download pass that finds no checkpoint it can read as
\* one pair (no file, a file that cannot be opened, an empty file, a text
\* that does not split into two fields) ends normally, not by an error, and
\* has gone through every year that has a link file.
C5_UnreadableCheckpointMeansFullRun ==
    (/\ dpc \in {"done", "aborted"}
     /\ UnpackFails(start_ckpt) \/ start_ckpt = <<None, None>>)
    => dpc = "done" /\ visited = {g \in Groups : links[g] # NoRows}

\* C7: a metadata store holds at most one row for an item id.
C7_OneRowPerItem ==
    \A g \in Groups : \A i, j \in 1..Len(metafile[g]) :
        (metafile[g] # NoRows /\ i # j /\ metafile[g][i] # Header)
        => metafile[g][i] # metafile[g][j]

\* Position (year, row) or (year, name) a comes strictly before b.
RowBefore(a, b) == a[1] < b[1] \/ (a[1] = b[1] /\ a[2] < b[2])

NameBefore(a, b) == a[1] < b[1] \/ (a[1] = b[1] /\ StrLeq(a[2], b[2]) /\ a[2] # b[2])

\* The checkpoints a run has written never move backwards.
Advances ==
    /\ \A i, j \in 1..Len(written) : i < j => RowBefore(written[i], written[j])
    /\ \A i, j \in 1..Len(m_written) : i < j => NameBefore(m_written[i], m_written[j])

\* A run of the download pass resumed from (G, I) has written no checkpoint
\* for a year before G nor for a row of G at or before the row of I.
DownloadPastCheckpoint ==
    Resumed(start_ckpt)
    => \A k \in 1..Len(written) :
           LET G == GroupOf(start_ckpt)
               w == written[k]
           IN  \/ w[1] > G
               \/ /\ w[1] = G
                  /\ \E p \in 1..Len(links[G]) : links[G][p] = start_ckpt[2] /\ p < w[2]

\* The same for the metadata pass, whose order within a year is that of the
\* sorted names.
MetaPastCheckpoint ==
    Resumed(m_start_ckpt)
    => \A k \in 1..Len(m_written) :
           LET G == GroupOf(m_start_ckpt)
               w == m_written[k]
           IN  \/ w[1] > G
               \/ w[1] = G /\ ~StrLeq(w[2], m_start_ckpt[2])

----------------------------------------------------------------------------
(* Claims about the listing fetcher and the speech pass *)

\* The requests of a call so far.
Requests == SelectSeq(g_trace, LAMBDA e : e.ev = "get")

\* C6: when the first request of a call of get_and_retry gets a status that
\* is an HTTP error and is not in retry_codes, that request is the only one
\* the call makes.
C6_NonRetryableStatusFailsAtOnce ==
    (/\ Len(Requests) >= 1
     /\ Requests[1].exc = "none"
     /\ raise_for_status(Requests[1].status)
     /\ Requests[1].status \notin retry_codes)
    => Len(Requests) = 1

\* C8: after two runs of the speech pass, each run from its start to its end,
\* the speech stores hold what they held after the first.
C8_SecondRunAddsNothing ==
    (spc = "idle" /\ s_runs = 2 /\ s_completed = 2) => parsed = s_first

----------------------------------------------------------------------------
(* Claims about the download pass *)

\* The checkpoint a run started from names a row of its year's link list.
ResumedInList ==
    /\ Resumed(start_ckpt)
    /\ links[GroupOf(start_ckpt)] # NoRows
    /\ start_ckpt[2] \in Listed(GroupOf(start_ckpt))

\* The row of that item.
RowOf(g, id) == CHOOSE p \in 1..Len(links[g]) : links[g][p] = id

\* C11: in a run of the download pass resumed from (G, I) with I in the link
\* list of G, every request is for an item of a later year or for an item
\* listed in G after I; and once the run has left G, every item listed in G
\* after I is excluded, downloaded, or was requested.
C11_SkipsExactlyThePrefix ==
    ResumedInList
    => LET G == GroupOf(start_ckpt)
           p == RowOf(G, start_ckpt[2])
       IN  /\ \A a \in attempted :
                \/ a[1] > G
                \/ a[1] = G /\ \E q \in (p + 1)..Len(links[G]) : links[G][q] = a[2]
           /\ (dpc \in {"groups", "rows", "fetch", "write", "save", "done"} /\ dgi > G)
              => \A q \in (p + 1)..Len(links[G]) :
                     \/ Excluded(links[G][q])
                     \/ links[G][q] \in folder[G]
                     \/ <<G, links[G][q]>> \in attempted

\* A resumed run has left G after a request for an item listed after I.
C11_ResumedRunFetchedAfterI ==
    /\ ResumedInList
    /\ dgi > GroupOf(start_ckpt)
    /\ \E a \in attempted : a[1] = GroupOf(start_ckpt)

\* The ids the site lists for a year.
RemoteIds(g) == {Remote[g][i] : i \in 1..Len(Remote[g])}

\* A request of this run for the item failed: it was made, and the item is
\* not in the folder, and is not the one being written.
FetchFailed(g, id) ==
    /\ <<g, id>> \in attempted
    /\ id \notin folder[g]
    /\ ~(dpc \in {"fetch", "write"} /\ dgi = g /\ links[g][dri] = id)

\* C12: the item the checkpoint file of the download pass names has a file
\* in its year's folder, and is not an item whose request failed; the same
\* for every checkpoint the run has written.
C12_CheckpointNamesStoredFile ==
    /\ \A g \in Groups : \A id \in RemoteIds(g) :
           RESUME_FILE = save_last_processed(vergaderjaren[g], id)
           => id \in folder[g] /\ ~FetchFailed(g, id)
    /\ \A k \in 1..Len(written) :
           links[written[k][1]][written[k][2]] \in folder[written[k][1]]

\* The checkpoint names an item while a request of the run has failed.
C12_CheckpointAfterFailure ==
    /\ dpc = "rows"
    /\ written # <<>>
    /\ \E g \in Groups : \E id \in RemoteIds(g) : FetchFailed(g, id)

----------------------------------------------------------------------------
(* Claims about errors, crashes and the store of the metadata pass *)

\* C13: once a write to the metadata store or to the checkpoint file has
\* raised in a run of the metadata pass, the run requests and stores no
\* further item.
C13_StorageErrorEndsRun ==
    m_storage_error => mpc \notin {"fetch", "row", "save"}

\* The checkpoint file of the download pass names row p of year g.
CheckpointAt(g, p) ==
    /\ links[g] # NoRows
    /\ p \in 1..Len(links[g])
    /\ RESUME_FILE = save_last_processed(vergaderjaren[g], links[g][p])

\* The checkpoint is at row q of year g, or further on.
CheckpointAtOrBeyond(g, q) ==
    \E h \in Groups : \E p \in 1..Len(Remote[h]) :
        CheckpointAt(h, p) /\ (h > g \/ (h = g /\ p >= q))

\* C14: in a run of the download pass that began without a checkpoint and
\* in which no request has failed, once the row loop has gone past an
\* excluded row, the checkpoint is at that row or further on.
C14_ExcludedRowAdvancesCheckpoint ==
    (/\ start_ckpt = <<None, None>>
     /\ dpc = "rows"
     /\ \A a \in attempted : a[2] \in folder[a[1]])
    => \A q \in 1..(dri - 1) :
           Excluded(links[dgi][q]) => CheckpointAtOrBeyond(dgi, q)

\* C15: no request of the download pass is for an item whose id holds the
\* pattern of the exclusion rule.
C15_NoRequestForExcluded ==
    \A a \in attempted : ~Contains(a[2], <<"-", "e", "k", "-">>)

\* A run has gone past an excluded row and has made a request after it.
C15_PassedExcludedRow ==
    /\ dpc \in {"rows", "fetch", "write", "save"}
    /\ \E q \in 1..(dri - 1) :
           /\ Excluded(links[dgi][q])
           /\ \E r \in (q + 1)..Len(links[dgi]) : <<dgi, links[dgi][r]>> \in attempted

----------------------------------------------------------------------------
(* Claims about the attempts and the sleeps of the listing fetcher *)

\* A request that got a status of retry_codes, or ran into the read timeout.
Retryable(e) == (e.exc = "none" /\ e.status \in retry_codes) \/ e.exc = "ReadTimeout"

\* A request that got a response that is neither retried nor an HTTP error.
Succeeded(e) == e.exc = "none" /\ e.status \notin retry_codes /\ ~(400 <= e.status /\ e.status < 600)

LastEvent == g_trace[Len(g_trace)]

\* C16: when a call with max_retries = n is over and each of its requests
\* failed retryably, it made n requests and raised; the request that succeeds
\* is the last one of the call, which returns its response.
C16_AttemptsCounted ==
    /\ (gpc = "done" /\ \A k \in 1..Len(Requests) : Retryable(Requests[k]))
       => Len(Requests) = max_retries /\ LastEvent.ev = "raise"
    /\ \A k \in 1..Len(Requests) :
           Succeeded(Requests[k])
           => /\ k = Len(Requests)
              /\ gpc = "done"
              /\ LastEvent.ev = "return"
              /\ LastEvent.status = Requests[k].status

\* A call that ran out of attempts after a timeout and a retried status.
C16_ExhaustedAfterRetries ==
    /\ gpc = "done"
    /\ max_retries >= 2
    /\ \A k \in 1..Len(Requests) : Retryable(Requests[k])
    /\ \E k \in 1..Len(Requests) : Requests[k].exc = "ReadTimeout"
    /\ \E k \in 1..Len(Requests) : Requests[k].exc = "none"

\* C17: a backoff sleep that follows request i lasts backoff * i, and when
\* the call is over every backoff sleep is followed by a further request:
\* none lies between the last request and the raising.
C17_SleepThenAttempt ==
    \A p \in 1..Len(g_trace) :
        g_trace[p].ev = "sleep"
        => /\ g_trace[p].secs = backoff * Len(SelectSeq(SubSeq(g_trace, 1, p), LAMBDA e : e.ev = "get"))
           /\ gpc = "done" => \E r \in (p + 1)..Len(g_trace) : g_trace[r].ev = "get"

\* The items of the running metadata pass whose row was handed to the store.
Handed == Range(m_written) \cup {<<mgi, todo[mi]>>}

\* The items of the running download pass whose file was written.
Written == {<<written[k][1], links[written[k][1]][written[k][2]]>> : k \in 1..Len(written)}
               \cup {<<dgi, links[dgi][dri]>>}

\* C18: when a pass is killed between the storing of an item and the saving
\* of the checkpoint, at most one of the items the run has stored is without
\* its record on disk (the one to be fetched again), in the metadata pass
\* and in the download pass.
C18_CrashBeforeCheckpoint ==
    [][/\ (mpc = "save" /\ mpc' = "idle" /\ ~m_storage_error)
          => Cardinality({w \in Handed : w[2] \notin RowsOnDisk(metafile'[w[1]])}) <= 1
       /\ (dpc = "save" /\ dpc' = "idle")
          => Cardinality({w \in Written : w[2] \notin folder'[w[1]]}) <= 1]_vars

\* C19: whenever the checkpoint file holds what save_last_processed wrote
\* for year g and item id, get_last_processed returns the pair of g and id.
C19_CheckpointRoundTrip ==
    \A g \in Groups : \A id \in RemoteIds(g) :
        RESUME_FILE = save_last_processed(vergaderjaren[g], id)
        => get_last_processed(RESUME_FILE) = <<vergaderjaren[g], id>>

\* The record rows of a store file, in the order of the file.
RecordRows(lines) ==
    IF lines = NoRows THEN <<>> ELSE SelectSeq(lines, LAMBDA l : l # Header)

\* A store that is missing or empty, or begins with the header.
WellFormed(lines) == lines = NoRows \/ lines = <<>> \/ lines[1] = Header

\* b is a followed by rows that are not in a and differ from each other.
Extends(a, b) ==
    /\ Len(a) <= Len(b)
    /\ SubSeq(b, 1, Len(a)) = a
    /\ \A k \in (Len(a) + 1)..Len(b) : b[k] \notin Range(a)
    /\ \A j, k \in (Len(a) + 1)..Len(b) : j # k => b[j] # b[k]

----------------------------------------------------------------------------
(* Claims about the header of the stores *)

\* The lines of a store that are not its header.
Records(lines, header) == SelectSeq(lines, LAMBDA l : l # header)

\* One header row, and behind it record rows only.
HeaderThenRecords(lines, header) ==
    /\ lines # <<>>
    /\ lines[1] = header
    /\ \A i \in 2..Len(lines) : lines[i] # header

\* C21 (speech store): a store of the speech pass that holds records has
\* exactly one header row, its first, followed by the record rows; the store
\* started missing or as a file without records.
C21_OneHeaderThenRecords ==
    \A g \in Groups :
        (parsed[g].exists /\ Records(parsed[g].lines, FieldNames) # <<>>)
            => HeaderThenRecords(parsed[g].lines, FieldNames)

----------------------------------------------------------------------------
(* Claims about what the extractor returns *)

\* The call has returned and its alarm has not gone off.
Returned == epc = "done" /\ completion # NoChoices /\ alarm # "fired"

\* The response text holds no opening brace.
NoBrace(text) == \A i \in 1..Len(text) : text[i] # "{"

\* The result is the error sentinel of lines 193-206.
IsSentinel(r) == r.tag = "error_response"

\* C22: when the response text holds no opening brace, the call returns the
\* error sentinel.
C22_NoBraceGivesSentinel ==
    (Returned /\ NoBrace(completion)) => IsSentinel(analysis_result)

\* C23: whatever the call returns is the error sentinel or a key-value
\* mapping that a complete parse produced, never a value of another type.
C23_ObjectOrSentinel ==
    epc = "done" =>
        \/ IsSentinel(analysis_result)
        \/ (analysis_result.tag = "value" /\ analysis_result.kind = "dict")

\* The text holds no code-fence marker.
NoFence(text) == ~Contains(text, <<Tick, Tick, Tick>>)

\* The well-formed object that the first brace of the text opens, as the
\* result of a parse; Unset when there is no brace or it opens no object.
FirstObject(text) ==
    LET p == FindBrace(text) IN
    IF p # 0 /\ ValueEnd(text, p) # 0
    THEN [tag |-> "value", kind |-> "dict", src |-> SubSeq(text, p, ValueEnd(text, p) - 1)]
    ELSE Unset

\* The quotes of the text before position p.
QuotesBefore(text, p) == {i \in 1..(p - 1) : text[i] = "\""}

\* C24: for a text without code fences whose first brace opens a well-formed
\* object, whatever precedes and follows it, the call returns that object
\* (stated here for the texts whose first brace is not preceded by a quote, so
\* that the brace cannot be read as part of a quoted string).
C24_FirstObjectReturned ==
    (/\ Returned
     /\ NoFence(completion)
     /\ FirstObject(Strip(completion)) # Unset
     /\ QuotesBefore(Strip(completion), FindBrace(Strip(completion))) = {})
        => analysis_result = FirstObject(Strip(completion))

\* The direct parse of the cleaned text fails and the text has a brace.
FallbackTaken == json_loads(clean_text) = JSONDecodeError /\ FindBrace(clean_text) # 0

\* The texts that begin at the first brace: every span the scan tries is one
\* of them.
FromFirstBrace(text) ==
    {SubSeq(text, FindBrace(text), i) : i \in FindBrace(text)..Len(text)}

\* C25: when the direct parse fails and no span from the first brace parses,
\* the call returns the error sentinel; and what the fallback returns
\* otherwise is the complete parse of such a span, nothing repaired or partial.
C25_NoCandidateGivesSentinel ==
    (Returned /\ FallbackTaken) =>
        /\ (\A c \in FromFirstBrace(clean_text) : json_loads(c) = JSONDecodeError)
              => IsSentinel(analysis_result)
        /\ ~IsSentinel(analysis_result)
              => \E c \in FromFirstBrace(clean_text) :
                    analysis_result = json_loads(c) /\ analysis_result.tag = "value"

\* An object cut off before its closing brace was scanned to its end.
C25_TruncatedObjectScanned ==
    /\ Returned
    /\ FallbackTaken
    /\ Len(clean_text) - FindBrace(clean_text) >= 3
    /\ SpanEnd(clean_text, FindBrace(clean_text)) = 0
    /\ e_i > Len(clean_text)
    /\ IsSentinel(analysis_result)

----------------------------------------------------------------------------
(* Claims about the deadline and about repeated calls *)

\* C26: a call whose alarm went off while it was parsing or scanning returns
\* the error sentinel, never a parsed value; and once the call has returned no
\* alarm is pending.
C26_DeadlineAbortsAndIsCancelled ==
    epc = "done" =>
        /\ alarm = "fired" => IsSentinel(analysis_result)
        /\ alarm # "armed"

\* The first call on this response and the call that has now returned both
\* ran without their alarm going off.
TwoQuietCalls ==
    /\ epc = "done"
    /\ e_results # <<>>
    /\ alarm # "fired"
    /\ ~e_results[1].fired

----------------------------------------------------------------------------
(* Claims about process_text *)

\* The request timed out, could not connect, or was answered with an error
\* status.
ApiFailed ==
    \/ response.kind \in {"Timeout", "ConnectionError"}
    \/ response.kind = "response" /\ response.status >= 400

\* The answer came without choices.
WithoutChoices == response.kind = "response" /\ response.body = NoChoices

\* _parse_api_response has returned the error response: no object was found,
\* or the handler of the parse timeout ran.
ExtractionFailed == epc = "done" /\ IsSentinel(analysis_result)

----------------------------------------------------------------------------
(* Claims about a failed request for one item *)

\* The step in which a request of the download pass fails (line 107).
DownloadFetchFails == dpc = "fetch" /\ dpc' = "rows"

\* The step in which a request of the metadata pass fails (lines 143-145).
MetaFetchFails == mpc = "fetch" /\ mpc' = "items"

\* A request ends in the writing of what it got or in the next turn of the
\* loop (or the process is killed); it never ends the run.
NeverEndsTheRun ==
    /\ (dpc = "fetch" /\ dpc' # dpc) => dpc' \in {"write", "rows", "idle"}
    /\ (mpc = "fetch" /\ mpc' # mpc) => mpc' \in {"row", "items", "idle"}

\* The failing step stores nothing, leaves the checkpoint, and hands the loop
\* the next item of the same year.
SkipsTheItem ==
    /\ DownloadFetchFails =>
          /\ UNCHANGED <<links, folder, RESUME_FILE, written>>
          /\ dgi' = dgi
          /\ dri' = dri + 1
    /\ MetaFetchFails =>
          /\ UNCHANGED <<metafile, mbuf, META_RESUME_FILE, m_written>>
          /\ mgi' = mgi
          /\ mi' = mi + 1

\* The item was dealt with in this run of the download pass: requested, or
\* passed over because it has a file or is excluded.
DownloadReached(g, id) == <<g, id>> \in attempted \/ id \in folder[g] \/ Excluded(id)

\* At the end of a run of the download pass: behind an item whose request
\* failed, every item of its year and of the later years was dealt with.
DownloadWentOn ==
    dpc = "done" =>
        \A g \in Groups : \A p \in 1..Len((IF links[g] = NoRows THEN <<>> ELSE links[g])) :
            FetchFailed(g, links[g][p]) =>
                /\ \A q \in (p + 1)..Len(links[g]) : DownloadReached(g, links[g][q])
                /\ \A h \in (g + 1)..Len(vergaderjaren) : \A q \in 1..Len((IF links[h] = NoRows THEN <<>> ELSE links[h])) :
                      DownloadReached(h, links[h][q])

\* The item was dealt with in this run of the metadata pass.
MetaReached(g, id) == <<g, id>> \in m_attempted \/ id \in RowsOnDisk(metafile[g])

\* A request of this run of the metadata pass for the item failed.
MetaFetchFailed(g, id) == <<g, id>> \in m_attempted /\ id \notin RowsOnDisk(metafile[g])

\* At the end of a run of the metadata pass that began without a checkpoint
\* and met no storage error: behind an item whose request failed, every file
\* of its year and of the later years was dealt with.
MetaWentOn ==
    (mpc = "done" /\ ~m_storage_error /\ m_start_ckpt = <<None, None>> /\ retry_runs = 0) =>
        \A g \in Groups : \A id \in folder[g] :
            MetaFetchFailed(g, id) =>
                /\ \A n \in folder[g] : StrLeq(id, n) => MetaReached(g, n)
                /\ \A h \in (g + 1)..Len(vergaderjaren) : \A n \in folder[h] :
                      MetaReached(h, n)

----------------------------------------------------------------------------
(* Claims about a failed request of the enumeration script *)

\* The step in which a request of the enumeration script failed.
ListingFetchFails == npc \in {"npages", "page"} /\ n_failed' # n_failed

\* The failing step closes the year's link file with the rows of the pages
\* written before it, touches no other link file, and hands the loop of
\* line 57 the next year.
AbortsTheGroupOnly ==
    ListingFetchFails =>
        /\ links'[ngi] = n_file
        /\ n_file = Prefix(ngi, IF npc = "page" THEN n_page - 1 ELSE 0)
        /\ \A h \in Groups \ {ngi} : links'[h] = links[h]
        /\ ngi' = ngi + 1
        /\ npc' = "group"

\* The years whose enumeration a failed request aborted.
FailedGroups == {f[1] : f \in n_failed}

\* The script has ended: the link file of a year whose enumeration was
\* aborted after k pages holds the rows of those k pages, and every other
\* year, before or after a failed one, has all its rows.
LaterGroupsEnumerated ==
    npc = "done" =>
        /\ \A f \in n_failed : links[f[1]] = Prefix(f[1], f[2])
        /\ \A g \in Groups \ FailedGroups : links[g] = Remote[g]

\* C30: a request of the enumeration script that fails, for the page count
\* or for a listing page, aborts the enumeration of that year only: the rows
\* written from earlier pages stay in the year's link file, and every later
\* year is still enumerated.
C30_FailedListingAbortsOneGroup ==
    /\ [][AbortsTheGroupOnly]_vars
    /\ [](LaterGroupsEnumerated /\ (npc # "off" => FailedGroups \subseteq 1..(ngi - 1)))

\* The script has ended after the request of a later page of one year failed:
\* the rows of that year's earlier pages are in its file and a later year
\* was enumerated in full.
C30_EarlierPagesKeptLaterYearDone ==
    /\ npc = "done"
    /\ \E f \in n_failed :
          /\ f[2] >= 1
          /\ links[f[1]] = Prefix(f[1], f[2])
          /\ links[f[1]] # <<>>
          /\ \E h \in (f[1] + 1)..Len(vergaderjaren) :
                h \notin FailedGroups /\ links[h] = Remote[h]

----------------------------------------------------------------------------
(* Claims about the records of a document *)

\* The step in which the speech pass dealt with a file, and that file.
FileProcessed == spc = "files" /\ s_files' # s_files

TheFile == CHOOSE file \in s_files : file \notin s_files'

\* The elements of the document that have no al text.
WithoutText(file) == {k \in 1..Len(Xml(file)) : Xml(file)[k] = "no_text"}

\* An element without text has its record, with the empty string as text.
EmptyTextKept ==
    (FileProcessed /\ ~DocumentFails(sgi, TheFile)) =>
        \A k \in WithoutText(TheFile) :
            \E i \in 1..Len(speeches'.list) :
                speeches'.list[i].speech = k /\ speeches'.list[i].speech_text = <<>>

\* The document yields as many records as it has spreekbeurt elements.
OneRecordPerElement ==
    (FileProcessed /\ ~DocumentFails(sgi, TheFile)) =>
        /\ ~speeches'.none
        /\ Len(speeches'.list) = Len(Xml(TheFile))

\* C31: a well-formed document whose metadata row is found yields one record
\* for each of its speech elements, and an element without paragraph text
\* yields a record with the empty string as its text and is not left out.
C31_OneRecordPerSpeechElement == [][OneRecordPerElement /\ EmptyTextKept]_vars

\* The part of C31 about elements without text, on its own.
C31_EmptyTextKept == [][EmptyTextKept]_vars

\* The pass goes on after the file: with another file of the year, or with
\* the next year.
GoesOnAfterFile ==
    /\ s_files' = s_files \ {TheFile}
    /\ IF s_files' # {} THEN spc' = "files" /\ sgi' = sgi
       ELSE spc' = "groups" /\ sgi' = sgi + 1

\* A document that fails gives the error outcome, no record, and nothing in
\* the store; the pass goes on.
FailedDocumentStoresNothing ==
    (FileProcessed /\ DocumentFails(sgi, TheFile)) =>
        /\ speeches'.none
        /\ speeches'.list = <<>>
        /\ parsed' = parsed
        /\ GoesOnAfterFile

\* A document without speech elements gives the empty list, which is not the
\* error outcome.
NoElementsGivesEmptyList ==
    (FileProcessed /\ ~DocumentFails(sgi, TheFile) /\ Xml(TheFile) = <<>>) =>
        /\ ~speeches'.none
        /\ speeches'.list = <<>>
        /\ speeches' # [none |-> TRUE, list |-> <<>>]

\* C32: a document that is malformed or has no metadata row yields the error
\* outcome and no record, nothing is appended to the speech store for it, and
\* the pass goes on with the next document; a well-formed document without
\* speech elements yields the empty sequence, which differs from the error
\* outcome.
C32_FailedDocumentYieldsNothing ==
    [][FailedDocumentStoresNothing /\ NoElementsGivesEmptyList]_vars

\* A file of the year has failed and the pass is about to take another file
\* of the same year.
C32_NextFileAfterFailedDocument ==
    /\ spc = "files"
    /\ speeches.none
    /\ s_files # {}
    /\ s_files # folder[sgi]
    /\ \E file \in folder[sgi] \ s_files : DocumentFails(sgi, file)

----------------------------------------------------------------------------
(* Claims about the code fence *)

Fence == <<Tick, Tick, Tick>>

FenceJson == Fence \o <<"j", "s", "o", "n">>

\* The text without a leading fence marker and without a trailing one.
Unwrapped(text) ==
    LET t == Strip(text)
        a == IF StartsWith(t, 1, FenceJson) THEN SubSeq(t, Len(FenceJson) + 1, Len(t)) ELSE t
        b == IF Len(a) >= 3 /\ SubSeq(a, Len(a) - 2, Len(a)) = Fence
             THEN SubSeq(a, 1, Len(a) - 3) ELSE a
    IN  Strip(b)

\* The object that was serialized, when the text is one.
Serialized(text) == json_loads(Unwrapped(text))

\* C33: for a response that is a well-formed JSON object, bare or wrapped in
\* a leading fence marker and a trailing one, the call returns exactly the
\* object that was serialized, also when a string value of it holds a fence.
C33_OnlyOuterFencesRemoved ==
    (Returned /\ Serialized(completion).tag = "value" /\ Serialized(completion).kind = "dict")
        => analysis_result = Serialized(completion)

----------------------------------------------------------------------------
(* Claims about what process_text returns *)

\* The extractor returned an object that is not the error response.
ExtractedObject ==
    /\ epc = "done"
    /\ analysis_result.tag = "value"
    /\ analysis_result.kind = "dict"

\* The field of the object holds something that is not empty.
FieldNonEmpty(r, key) == HasLen(Get(r, key)) /\ NonEmpty(Get(r, key))

\* The object is returned as it is, with or without _meta.
ObjectReturned == returned.result = analysis_result

\* C34: when the extractor returned an object, process_text returns that
\* object, with _meta added exactly when one of the fields
\* gevonden_delegitimatie and gevallen_delegitimatie is not empty, and
\* otherwise unchanged, whatever those fields hold.
C34_ObjectReturnedWithMetaIffFound ==
    (ppc = "done" /\ ExtractedObject) =>
        /\ ObjectReturned
        /\ returned.meta <=> (\/ FieldNonEmpty(analysis_result, gevonden_delegitimatie)
                              \/ FieldNonEmpty(analysis_result, gevallen_delegitimatie))

\* The same for objects whose two fields, where present, are lists, objects
\* or strings.
C34_SizedFields ==
    (/\ ppc = "done" /\ ExtractedObject
     /\ HasLen(Get(analysis_result, gevonden_delegitimatie))
     /\ HasLen(Get(analysis_result, gevallen_delegitimatie)))
        => C34_ObjectReturnedWithMetaIffFound

----------------------------------------------------------------------------
(* Claims about the error log of the download pass *)

\* The step in which the requests for an item were made, and the item.
Requested == dpc = "fetch" /\ dpc' # dpc /\ dpc' # "idle"

TheItem == links[dgi][dri]

\* The lines of the log that are about the item.
LinesAbout(log, id) == {n \in 1..Len(log) : log[n] = log_error(Url(id), ErrorText(Url(id)))}

\* An item whose requests failed gets one line, an item whose document is
\* about to be stored gets none.
OneLineIfFailed ==
    Requested =>
        Cardinality(LinesAbout(ERROR_LOG', TheItem)) =
            Cardinality(LinesAbout(ERROR_LOG, TheItem)) + (IF dpc' = "write" THEN 0 ELSE 1)

\* The ids the log has lines about.
LoggedIds(log) == {id \in UNION {RemoteIds(g) : g \in Groups} : LinesAbout(log, id) # {}}

\* The validator reads from the log the ids it has lines about.
ValidatorReadsLoggedIds == read_error_log(ERROR_LOG) = LoggedIds(ERROR_LOG)

\* C35: the download pass appends one line to the error log for each item
\* whose fetch failed in the end and none for an item whose document is
\* stored, and the ids that the validator reads from the log are those of the
\* failed items.
C35_LogHoldsTheFailedItems ==
    /\ [][OneLineIfFailed]_vars
    /\ [](ValidatorReadsLoggedIds)

----------------------------------------------------------------------------
(* Claims about the nesting depth of the scan *)

\* The step that tries a candidate span: the scan parses it and returns, or
\* reports that it does not parse.
CandidateTried ==
    /\ epc = "scan"
    /\ e_i <= Len(clean_text)
    /\ epc' \in {"done", "logerr"}
    /\ alarm' # "fired"

\* A span is tried only on the step that takes the depth from above zero
\* back to zero.
TriedOnReturnToZero == CandidateTried => (brace_count > 0 /\ brace_count' = 0)

\* C36: throughout the scan of _extract_json the nesting depth brace_count
\* is never negative, and a candidate span is tried only when the depth
\* returns to zero after having been positive.
C36_DepthNeverNegative ==
    /\ [](brace_count >= 0)
    /\ [][TriedOnReturnToZero]_vars

\* The part of C36 about when a span is tried, on its own.
C36_TriedOnReturnToZero == [][TriedOnReturnToZero]_vars

----------------------------------------------------------------------------
(* Claims about files taken as downloaded *)

\* The step in which the download pass passes over a row because its file
\* is in the folder (line 89).
SkippedAsPresent ==
    /\ dpc = "rows"
    /\ dri <= Len(links[dgi])
    /\ ~resume_processing
    /\ links[dgi][dri] \in file_list

\* C37: a file that a run of the download pass takes as already downloaded
\* holds the whole response for its item; an item whose file was written in
\* part only is fetched again.
C37_SkippedFilesAreComplete ==
    [][SkippedAsPresent => links[dgi][dri] \notin incomplete[dgi]]_vars
====
